---- MODULE Spec2Model ----
(***************************************************************************)
(* WalletWise: the analytics aggregation (Analytics.tsx), its period       *)
(* resolver, and the free-text budget extractor (lib/openai.ts).           *)
(*                                                                         *)
(* A JavaScript number is modelled exactly: an integer where the program   *)
(* only adds integers, a fraction [num, den] in lowest terms where it      *)
(* divides or parses decimals (floating-point rounding is not modelled).   *)
(* A JavaScript Date is an instant: an integer number of ticks since       *)
(* 00:00 UTC on 1 January of EpochYear, TicksPerDay ticks to the day.      *)
(* Months are 0-based as in Date.getMonth().                               *)
(***************************************************************************)
EXTENDS Integers, Sequences, FiniteSets, TLC

VARIABLES
    \* ---- Analytics component (Analytics.tsx)
    user,            \* useAuth().user
    selectedPeriod,  \* useState('current')
    analyticsData,   \* useState<AnalyticsData>
    loading,         \* useState(true)
    fetched,         \* what the last fetchAnalyticsData run read and how it ended
    \* ---- environment of the Analytics component
    tz,              \* client time zone offset, in ticks east of UTC
    clock,           \* the instant new Date() returns
    store,           \* rows of the transactions table, in the order a query returns them
    \* ---- period resolver applied on its own
    rNow, rPeriod, rStart,
    \* ---- extractor (lib/openai.ts)
    openai,          \* the OpenAI client, NULL without VITE_OPENAI_API_KEY
    input,           \* the user's text, a sequence of characters
    analysis,        \* the BudgetAnalysis analyzeFinancialInput returned
    context,         \* the context argument of the last call, <<>> for undefined
    oracle,          \* what the last call sent to the completion oracle and got back
    twin,            \* the BudgetAnalysis a second deployment returned for the same text
    \* ---- Dashboard component (Dashboard.tsx)
    stats,           \* useState<DashboardStats>
    dashLoading,     \* useState(true)
    dashFetched,     \* what the last fetchDashboardStats run sent and read
    db,              \* the budgets, transactions and emis tables
    \* ---- overlapping runs of fetchAnalyticsData
    inflight,        \* the runs that have not reached setAnalyticsData yet
    nextId,          \* the number the next run gets, in order of start
    history,         \* the latest two runs that have resolved, in order of resolution
    shown,           \* the run whose result setAnalyticsData stored last
    \* ---- AuthProvider (AuthContext.tsx)
    userProfile,     \* useState<UserProfile | null>
    authLoading,     \* useState(true)
    session,         \* the user of the auth client's session, NULL when signed out
    pendingAuth,     \* the getSession and signOut promises and the fetchUserProfile
                     \* calls in flight
    \* ---- AppContent (App.tsx) and BudgetManager (BudgetManager.tsx)
    activeTab,            \* useState('dashboard')
    conversationHistory,  \* useState([])
    isProcessing,         \* useState(false)
    isListening,          \* useState(false)
    form,                 \* the values of useForm<BudgetFormData>
    currentBudgetContext, \* useState({})
    calls,                \* processAIInput and onSubmit calls waiting at their await
    recognition,          \* the started speech recognition and what its handler captured
    step                  \* the handler that ran last and the event it dispatched

vars == <<user, selectedPeriod, analyticsData, loading, fetched, tz, clock, store,
          rNow, rPeriod, rStart, openai, input, analysis, context, oracle, twin,
          stats, dashLoading, dashFetched, db,
          inflight, nextId, history, shown,
          userProfile, authLoading, session, pendingAuth,
          activeTab, conversationHistory, isProcessing, isListening, form,
          currentBudgetContext, calls, recognition, step>>

analyticsVars == <<user, selectedPeriod, analyticsData, loading, fetched, tz, clock, store>>
resolverVars  == <<rNow, rPeriod, rStart>>
extractVars   == <<openai, input, analysis, context, oracle, twin>>
dashboardVars == <<stats, dashLoading, dashFetched, db>>
asyncVars     == <<inflight, nextId, history, shown>>
authVars      == <<userProfile, authLoading, session, pendingAuth>>
appVars       == <<activeTab, conversationHistory, isProcessing, isListening, form,
                   currentBudgetContext, calls, recognition, step>>
----------------------------------------------------------------------------
(* Bounds of the model *)

BaseYear == 2023        \* the clock shows BaseYear and BaseYear + 1
TicksPerDay == 2        \* clock resolution
MaxTx == 2              \* rows in the transactions table
MaxGroups == 2          \* thousands groups written after the leading digits
MaxWords == 2           \* words in a text given to determineAction
MaxFetches == 3         \* runs of fetchAnalyticsData started in a behaviour
MaxProfileFetches == 2  \* fetchUserProfile calls in flight at once
MaxTurns == 4           \* turns of the conversation, those still to come included

EpochYear == BaseYear - 1
TZOffsets == {-1, 0, 1}

NULL == "NULL"
----------------------------------------------------------------------------
(* Calendar and Date arithmetic of the JavaScript runtime *)

IsLeap(y) == (y % 4 = 0 /\ y % 100 # 0) \/ y % 400 = 0

DaysInMonth(y, m) ==
    CASE m = 1 -> IF IsLeap(y) THEN 29 ELSE 28
      [] m \in {3, 5, 8, 10} -> 30
      [] OTHER -> 31

DaysInYear(y) == IF IsLeap(y) THEN 366 ELSE 365

RECURSIVE DaysBeforeYear(_)
DaysBeforeYear(y) ==
    IF y <= EpochYear THEN 0 ELSE DaysBeforeYear(y - 1) + DaysInYear(y - 1)

RECURSIVE DaysBeforeMonth(_, _)
DaysBeforeMonth(y, m) ==
    IF m <= 0 THEN 0 ELSE DaysBeforeMonth(y, m - 1) + DaysInMonth(y, m - 1)

MkDate(y, m, d) == [year |-> y, month |-> m, day |-> d]

\* days from 1 January of EpochYear to the date
DayIndex(date) ==
    DaysBeforeYear(date.year) + DaysBeforeMonth(date.year, date.month) + date.day - 1

RECURSIVE DateFromYear(_, _)
RECURSIVE DateFromMonth(_, _, _)
DateFromMonth(y, m, n) ==
    IF n < DaysInMonth(y, m) THEN MkDate(y, m, n + 1)
    ELSE DateFromMonth(y, m + 1, n - DaysInMonth(y, m))
DateFromYear(y, n) ==
    IF n < DaysInYear(y) THEN DateFromMonth(y, 0, n)
    ELSE DateFromYear(y + 1, n - DaysInYear(y))

DateOfDayIndex(n) == DateFromYear(EpochYear, n)

\* Date.getFullYear / getMonth / getDate: the calendar fields in the client zone
LocalDate(t, zone) == DateOfDayIndex((t + zone) \div TicksPerDay)
LocalTick(t, zone) == (t + zone) % TicksPerDay

\* new Date(year, monthIndex, day): local midnight; a monthIndex outside 0..11
\* carries into the year (ECMAScript MakeDay)
NewDate(y, m, d, zone) ==
    DayIndex(MkDate(y + (m \div 12), m % 12, d)) * TicksPerDay - zone

\* date.toISOString().split('T')[0]: the UTC calendar date
ToISODate(t) == DateOfDayIndex(t \div TicksPerDay)

\* new Date('YYYY-MM-DD'): midnight UTC of the written date
ParseISODate(date) == DayIndex(date) * TicksPerDay

\* a clock reading: a local calendar date and a tick of that day
Instant(date, tick, zone) == DayIndex(date) * TicksPerDay + tick - zone
----------------------------------------------------------------------------
(* Exact numbers *)

RECURSIVE GCD(_, _)
GCD(a, b) == IF b = 0 THEN a ELSE GCD(b, a % b)

\* n / d for d > 0, in lowest terms
Ratio(n, d) == LET g == GCD(n, d) IN
    IF n = 0 THEN [num |-> 0, den |-> 1] ELSE [num |-> n \div g, den |-> d \div g]

Zero == [num |-> 0, den |-> 1]

\* Math.ceil(a / b) for b > 0
Ceil(a, b) == -((-a) \div b)
----------------------------------------------------------------------------
(* Analytics.tsx *)

PeriodKeys == {"current", "last3", "last6", "year"}

Months == <<"Jan", "Feb", "Mar", "Apr", "May", "Jun",
            "Jul", "Aug", "Sep", "Oct", "Nov", "Dec">>

\* months.indexOf(label)
MonthIndexOf(label) == (CHOOSE i \in 1..12 : Months[i] = label) - 1

\* date.toLocaleDateString('en-US', { month: 'short' })
MonthShort(t, zone) == Months[LocalDate(t, zone).month + 1]

EmptyAnalytics ==
    [categorySpending |-> <<>>, monthlyTrends |-> <<>>,
     totalSpent |-> 0, averageDaily |-> Zero]

\* the sample data of the catch block
SampleAnalytics ==
    [categorySpending |->
        << [category |-> "Rent", amount |-> 1200],
           [category |-> "Groceries", amount |-> 450],
           [category |-> "Transportation", amount |-> 300],
           [category |-> "Entertainment", amount |-> 200],
           [category |-> "Healthcare", amount |-> 150],
           [category |-> "Savings", amount |-> 500],
           [category |-> "Miscellaneous", amount |-> 100] >>,
     monthlyTrends |->
        << [month |-> "Jan", amount |-> 2800],
           [month |-> "Feb", amount |-> 2650],
           [month |-> "Mar", amount |-> 2900],
           [month |-> "Apr", amount |-> 2750],
           [month |-> "May", amount |-> 2850],
           [month |-> "Jun", amount |-> 2900] >>,
     totalSpent |-> 2900,
     averageDaily |-> Ratio(9667, 100)]

\* a variant that forgets the carry of a negative month index into the year
getStartDateForPeriod_NoCarry(period, now, zone) ==
    LET d == LocalDate(now, zone) IN
    CASE period = "last3" -> NewDate(d.year, (d.month - 3) % 12, 1, zone)
      [] period = "last6" -> NewDate(d.year, (d.month - 6) % 12, 1, zone)
      [] period = "year"  -> NewDate(d.year, 0, 1, zone)
      [] OTHER            -> NewDate(d.year, d.month, 1, zone)

getStartDateForPeriod(period, now, zone) ==
    LET d == LocalDate(now, zone) IN
    CASE period = "last3" -> NewDate(d.year, d.month - 3, 1, zone)
      [] period = "last6" -> NewDate(d.year, d.month - 6, 1, zone)
      [] period = "year"  -> NewDate(d.year, 0, 1, zone)
      [] OTHER            -> NewDate(d.year, d.month, 1, zone)

\* transaction.categories?.name || 'Miscellaneous'
CategoryName(transaction) ==
    IF transaction.category = NULL THEN "Miscellaneous" ELSE transaction.category

\* position of the key in an insertion-ordered object, 0 when absent
KeyPos(entries, field, key) ==
    IF \E i \in 1..Len(entries) : entries[i][field] = key
    THEN CHOOSE i \in 1..Len(entries) : entries[i][field] = key
    ELSE 0

\* a variant that assigns the amount instead of adding it
RECURSIVE CategorySpending_Overwrite(_)
CategorySpending_Overwrite(transactions) ==
    IF transactions = <<>> THEN <<>>
    ELSE LET n    == Len(transactions)
             acc  == CategorySpending_Overwrite(SubSeq(transactions, 1, n - 1))
             name == CategoryName(transactions[n])
             i    == KeyPos(acc, "category", name)
         IN IF i = 0
            THEN Append(acc, [category |-> name, amount |-> transactions[n].amount])
            ELSE [acc EXCEPT ![i].amount = transactions[n].amount]

\* categorySpending[categoryName] = (categorySpending[categoryName] || 0) + amount,
\* over the rows in order; keys keep first-seen order
RECURSIVE CategorySpending(_)
CategorySpending(transactions) ==
    IF transactions = <<>> THEN <<>>
    ELSE LET n    == Len(transactions)
             acc  == CategorySpending(SubSeq(transactions, 1, n - 1))
             name == CategoryName(transactions[n])
             i    == KeyPos(acc, "category", name)
         IN IF i = 0
            THEN Append(acc, [category |-> name, amount |-> transactions[n].amount])
            ELSE [acc EXCEPT ![i].amount = @ + transactions[n].amount]

\* totalSpent += transaction.amount
RECURSIVE TotalSpent(_)
TotalSpent(transactions) ==
    IF transactions = <<>> THEN 0
    ELSE TotalSpent(Tail(transactions)) + Head(transactions).amount

\* monthlyData[monthKey] = (monthlyData[monthKey] || 0) + amount
RECURSIVE MonthlyData(_, _)
MonthlyData(transactions, zone) ==
    IF transactions = <<>> THEN <<>>
    ELSE LET n   == Len(transactions)
             acc == MonthlyData(SubSeq(transactions, 1, n - 1), zone)
             key == MonthShort(ParseISODate(transactions[n].transaction_date), zone)
             i   == KeyPos(acc, "month", key)
         IN IF i = 0
            THEN Append(acc, [month |-> key, amount |-> transactions[n].amount])
            ELSE [acc EXCEPT ![i].amount = @ + transactions[n].amount]

\* Array.prototype.sort with (a, b) => months.indexOf(a.month) - months.indexOf(b.month):
\* a stable sort, here by insertion
RECURSIVE InsertByMonth(_, _)
InsertByMonth(sorted, e) ==
    IF sorted = <<>> THEN <<e>>
    ELSE LET last == sorted[Len(sorted)] IN
         IF MonthIndexOf(last.month) - MonthIndexOf(e.month) > 0
         THEN Append(InsertByMonth(SubSeq(sorted, 1, Len(sorted) - 1), e), last)
         ELSE Append(sorted, e)

RECURSIVE SortByMonth(_)
SortByMonth(entries) ==
    IF entries = <<>> THEN <<>>
    ELSE InsertByMonth(SortByMonth(SubSeq(entries, 1, Len(entries) - 1)),
                       entries[Len(entries)])

\* a variant that returns the entries in first-seen order
generateMonthlyTrends_Unsorted(transactions, zone) == MonthlyData(transactions, zone)

generateMonthlyTrends(transactions, zone) == SortByMonth(MonthlyData(transactions, zone))

\* Math.ceil((endDate.getTime() - startDate.getTime()) / (1000 * 60 * 60 * 24))
DaysDiff(startDate, endDate) == Ceil(endDate - startDate, TicksPerDay)

\* a variant without the guard: x / 0 is Infinity (den 0), 0 / 0 is NaN
AverageDaily_Unguarded(totalSpent, daysDiff) ==
    IF daysDiff > 0 THEN Ratio(totalSpent, daysDiff)
    ELSE [num |-> IF totalSpent > 0 THEN 1 ELSE 0, den |-> 0]

\* a variant that divides by max(1, daysDiff)
AverageDaily_Max1(totalSpent, daysDiff) ==
    Ratio(totalSpent, IF daysDiff > 1 THEN daysDiff ELSE 1)

\* daysDiff > 0 ? totalSpent / daysDiff : 0
AverageDaily(totalSpent, daysDiff) ==
    IF daysDiff > 0 THEN Ratio(totalSpent, daysDiff) ELSE Zero

\* a variant that shows the sample data when no row was fetched
Aggregate_SampleWhenEmpty(transactions, startDate, endDate, zone) ==
    IF transactions = <<>> THEN SampleAnalytics
    ELSE [categorySpending |-> CategorySpending(transactions),
          monthlyTrends    |-> generateMonthlyTrends(transactions, zone),
          totalSpent       |-> TotalSpent(transactions),
          averageDaily     |-> AverageDaily(TotalSpent(transactions),
                                            DaysDiff(startDate, endDate))]

\* the aggregation of fetchAnalyticsData over the fetched rows
Aggregate(transactions, startDate, endDate, zone) ==
    [categorySpending |-> CategorySpending(transactions),
     monthlyTrends    |-> generateMonthlyTrends(transactions, zone),
     totalSpent       |-> TotalSpent(transactions),
     averageDaily     |-> AverageDaily(TotalSpent(transactions),
                                       DaysDiff(startDate, endDate))]

\* .gte('transaction_date', from).lte('transaction_date', to) on the transactions
\* of the user's active budgets: a comparison of calendar dates
QueryTransactions(rows, from, to) ==
    SelectSeq(rows, LAMBDA r :
        /\ DayIndex(r.transaction_date) >= DayIndex(from)
        /\ DayIndex(r.transaction_date) <= DayIndex(to))
----------------------------------------------------------------------------
(* Dashboard.tsx *)

\* the useState default, and the value the catch block sets
InitialStats ==
    [totalIncome |-> 0, totalExpenses |-> 0, remainingBalance |-> 0,
     monthlyChange |-> Zero, upcomingEmis |-> 0, categoriesOverBudget |-> 0]

\* startOfMonth = new Date(); setDate(1); setHours(0, 0, 0, 0): local midnight
\* of the first day of the clock's local month
StartOfMonth(now, zone) ==
    LET d == LocalDate(now, zone) IN NewDate(d.year, d.month, 1, zone)

\* from('budgets').select('*').eq('user_id', user.id)
QueryBudgets(rows, uid) == SelectSeq(rows, LAMBDA b : b.user_id = uid)

\* from('transactions').select('amount').in('budget_id', budgetIds)
\*     .gte('transaction_date', from)
QueryMonthTransactions(rows, budgets, from) ==
    SelectSeq(rows, LAMBDA t :
        /\ \E i \in 1..Len(budgets) : budgets[i].id = t.budget_id
        /\ DayIndex(t.transaction_date) >= DayIndex(from))

\* from('emis').select('*').eq('user_id', user.id).gt('remaining_months', 0)
QueryEmis(rows, uid) ==
    SelectSeq(rows, LAMBDA e : e.user_id = uid /\ e.remaining_months > 0)

\* a variant that counts the active budgets only
TotalIncome_ActiveOnly(budgets) ==
    LET RECURSIVE Sum(_)
        Sum(q) == IF q = <<>> THEN 0
                  ELSE (IF Head(q).is_active THEN Head(q).total_income ELSE 0) + Sum(Tail(q))
    IN Sum(budgets)

\* budgets?.reduce((sum, budget) => sum + budget.total_income, 0) || 0, with <<>>
\* for null
RECURSIVE TotalIncome(_)
TotalIncome(budgets) ==
    IF budgets = <<>> THEN 0
    ELSE TotalIncome(SubSeq(budgets, 1, Len(budgets) - 1)) + budgets[Len(budgets)].total_income

\* transactions.reduce((sum, transaction) => sum + transaction.amount, 0)
RECURSIVE TotalExpenses(_)
TotalExpenses(transactions) ==
    IF transactions = <<>> THEN 0
    ELSE TotalExpenses(SubSeq(transactions, 1, Len(transactions) - 1))
             + transactions[Len(transactions)].amount

\* the object given to setStats in the try block; emis?.length || 0
Summarize(budgets, transactions, emis) ==
    [totalIncome          |-> TotalIncome(budgets),
     totalExpenses        |-> TotalExpenses(transactions),
     remainingBalance     |-> TotalIncome(budgets) - TotalExpenses(transactions),
     monthlyChange        |-> Ratio(26, 5),
     upcomingEmis         |-> Len(emis),
     categoriesOverBudget |-> 1]

\* no run of fetchDashboardStats yet
NoDashFetch ==
    [outcome |-> "none", errors |-> {}, lowerBound |-> <<>>,
     budgets |-> <<>>, transactions |-> <<>>, emis |-> <<>>]

EmptyDb == [budgets |-> <<>>, transactions |-> <<>>, emis |-> <<>>]
----------------------------------------------------------------------------
(* lib/openai.ts: text is a sequence of one-character strings *)

Digits == {"0", "1", "2", "3", "4", "5", "6", "7", "8", "9"}

DigitValue ==
    "0" :> 0 @@ "1" :> 1 @@ "2" :> 2 @@ "3" :> 3 @@ "4" :> 4 @@
    "5" :> 5 @@ "6" :> 6 @@ "7" :> 7 @@ "8" :> 8 @@ "9" :> 9

UpperToLower ==
    "A" :> "a" @@ "B" :> "b" @@ "C" :> "c" @@ "D" :> "d" @@ "E" :> "e" @@ "F" :> "f" @@
    "G" :> "g" @@ "H" :> "h" @@ "I" :> "i" @@ "J" :> "j" @@ "K" :> "k" @@ "L" :> "l" @@
    "M" :> "m" @@ "N" :> "n" @@ "O" :> "o" @@ "P" :> "p" @@ "Q" :> "q" @@ "R" :> "r" @@
    "S" :> "s" @@ "T" :> "t" @@ "U" :> "u" @@ "V" :> "v" @@ "W" :> "w" @@ "X" :> "x" @@
    "Y" :> "y" @@ "Z" :> "z"

\* String.prototype.toLowerCase
ToLowerCase(text) ==
    [i \in 1..Len(text) |->
        IF text[i] \in DOMAIN UpperToLower THEN UpperToLower[text[i]] ELSE text[i]]

\* the word stands in the text at position i
WordAt(text, i, word) ==
    /\ i >= 1
    /\ i + Len(word) - 1 <= Len(text)
    /\ \A k \in 1..Len(word) : text[i + k - 1] = word[k]

\* String.prototype.includes
Includes(text, word) == \E i \in 1..(Len(text) + 1) : WordAt(text, i, word)

IsDigitAt(text, i) == i >= 1 /\ i <= Len(text) /\ text[i] \in Digits

\* a greedy character class: the first position from i on whose character is
\* not in the class
RECURSIVE SkipClass(_, _, _)
SkipClass(text, i, class) ==
    IF i <= Len(text) /\ text[i] \in class THEN SkipClass(text, i + 1, class) ELSE i

\* (?:,\d{3})* from position i: the position after the last group
RECURSIVE SkipGroups(_, _)
SkipGroups(text, i) ==
    IF /\ i <= Len(text) /\ text[i] = ","
       /\ IsDigitAt(text, i + 1) /\ IsDigitAt(text, i + 2) /\ IsDigitAt(text, i + 3)
    THEN SkipGroups(text, i + 4)
    ELSE i

\* (?:\.\d{2})? from position i
SkipCents(text, i) ==
    IF i <= Len(text) /\ text[i] = "." /\ IsDigitAt(text, i + 1) /\ IsDigitAt(text, i + 2)
    THEN i + 3
    ELSE i

\* [:\s]*\$?(\d+(?:,\d{3})*(?:\.\d{2})?) from position i: the span <<from, to>> of
\* the capture group, <<0, 0>> when it does not match there.  Every part after
\* \d+ is optional and the classes are disjoint, so the greedy path is the match.
AmountSpanAt(text, i) ==
    LET a == SkipClass(text, i, {":", " "})
        b == IF a <= Len(text) /\ text[a] = "$" THEN a + 1 ELSE a
        c == SkipClass(text, b, Digits)
    IN IF c = b THEN <<0, 0>>
       ELSE <<b, SkipCents(text, SkipGroups(text, c)) - 1>>

\* text.match(/<word>[:\s]*\$?(\d+(?:,\d{3})*(?:\.\d{2})?)/): the capture group of
\* the leftmost match as a one-element sequence, <<>> for null
RegexCapture(text, word) ==
    LET hits == { i \in 1..Len(text) :
                    WordAt(text, i, word) /\ AmountSpanAt(text, i + Len(word))[1] # 0 }
    IN IF hits = {} THEN <<>>
       ELSE LET i    == CHOOSE h \in hits : \A g \in hits : h <= g
                span == AmountSpanAt(text, i + Len(word))
            IN << SubSeq(text, span[1], span[2]) >>

\* str.replace(',', ''): the first comma only
ReplaceFirstComma(str) ==
    IF \E i \in 1..Len(str) : str[i] = ","
    THEN LET i == CHOOSE k \in 1..Len(str) :
                     str[k] = "," /\ \A j \in 1..(k - 1) : str[j] # ","
         IN SubSeq(str, 1, i - 1) \o SubSeq(str, i + 1, Len(str))
    ELSE str

RECURSIVE DigitsValue(_)
DigitsValue(ds) ==
    IF ds = <<>> THEN 0
    ELSE DigitsValue(SubSeq(ds, 1, Len(ds) - 1)) * 10 + DigitValue[ds[Len(ds)]]

RECURSIVE Pow10(_)
Pow10(n) == IF n = 0 THEN 1 ELSE 10 * Pow10(n - 1)

\* parseFloat of a string that starts with a digit: the longest prefix
\* digits[.digits] is the number, what follows is ignored
ParseFloat(str) ==
    LET a    == SkipClass(str, 1, Digits)
        b    == IF a <= Len(str) /\ str[a] = "." THEN SkipClass(str, a + 1, Digits) ELSE a
        int  == DigitsValue(SubSeq(str, 1, a - 1))
        frac == IF b > a THEN SubSeq(str, a + 1, b - 1) ELSE <<>>
    IN Ratio(int * Pow10(Len(frac)) + DigitsValue(frac), Pow10(Len(frac)))

INCOME == <<"i", "n", "c", "o", "m", "e">>

\* the categories array of extractBudgetData, in its order
ExtractCategories ==
    << <<"r", "e", "n", "t">>,
       <<"g", "r", "o", "c", "e", "r", "i", "e", "s">>,
       <<"t", "r", "a", "n", "s", "p", "o", "r", "t", "a", "t", "i", "o", "n">>,
       <<"e", "n", "t", "e", "r", "t", "a", "i", "n", "m", "e", "n", "t">>,
       <<"h", "e", "a", "l", "t", "h", "c", "a", "r", "e">>,
       <<"s", "a", "v", "i", "n", "g", "s">>,
       <<"u", "t", "i", "l", "i", "t", "i", "e", "s">> >>

SAVE      == <<"s", "a", "v", "e">>
REDUCE    == <<"r", "e", "d", "u", "c", "e">>
EMERGENCY == <<"e", "m", "e", "r", "g", "e", "n", "c", "y">>
FUND      == <<"f", "u", "n", "d">>

Undefined == [defined |-> FALSE, income |-> <<>>, expenses |-> <<>>, suggestions |-> <<>>]

\* the categories.forEach loop: an entry for every category whose regex matched,
\* in the order of the categories array
RECURSIVE ExtractExpenses(_, _)
ExtractExpenses(lowerInput, n) ==
    IF n = 0 THEN <<>>
    ELSE LET rest  == ExtractExpenses(lowerInput, n - 1)
             match == RegexCapture(lowerInput, ExtractCategories[n])
         IN IF match # <<>>
            THEN Append(rest, [category |-> ExtractCategories[n],
                               amount   |-> ParseFloat(ReplaceFirstComma(match[1]))])
            ELSE rest

ExtractSuggestions(aiResponse) ==
    (IF Includes(aiResponse, SAVE) \/ Includes(aiResponse, REDUCE)
     THEN <<"Consider reducing discretionary spending">> ELSE <<>>)
    \o
    (IF Includes(aiResponse, EMERGENCY) \/ Includes(aiResponse, FUND)
     THEN <<"Build an emergency fund">> ELSE <<>>)

\* a variant that returns the object even when it has no key
extractBudgetData_AlwaysObject(text, aiResponse) ==
    LET lowerInput  == ToLowerCase(text)
        incomeMatch == RegexCapture(lowerInput, INCOME)
    IN [defined     |-> TRUE,
        income      |-> IF incomeMatch # <<>>
                        THEN << ParseFloat(ReplaceFirstComma(incomeMatch[1])) >>
                        ELSE <<>>,
        expenses    |-> ExtractExpenses(lowerInput, Len(ExtractCategories)),
        suggestions |-> ExtractSuggestions(aiResponse)]

\* a variant that reads income and expenses from the oracle's reply
extractBudgetData_FromReply(text, aiResponse) ==
    LET lowerInput  == ToLowerCase(aiResponse)
        incomeMatch == RegexCapture(lowerInput, INCOME)
        income      == IF incomeMatch # <<>>
                       THEN << ParseFloat(ReplaceFirstComma(incomeMatch[1])) >>
                       ELSE <<>>
        expenses    == ExtractExpenses(lowerInput, Len(ExtractCategories))
        suggestions == ExtractSuggestions(aiResponse)
    IN IF income # <<>> \/ expenses # <<>> \/ suggestions # <<>>
       THEN [defined |-> TRUE, income |-> income, expenses |-> expenses,
             suggestions |-> suggestions]
       ELSE Undefined

\* budgetData has the key income / expenses / suggestions exactly when the
\* field here is not <<>>; an object without keys is returned as undefined
extractBudgetData(text, aiResponse) ==
    LET lowerInput  == ToLowerCase(text)
        incomeMatch == RegexCapture(lowerInput, INCOME)
        income      == IF incomeMatch # <<>>
                       THEN << ParseFloat(ReplaceFirstComma(incomeMatch[1])) >>
                       ELSE <<>>
        expenses    == ExtractExpenses(lowerInput, Len(ExtractCategories))
        suggestions == ExtractSuggestions(aiResponse)
    IN IF income # <<>> \/ expenses # <<>> \/ suggestions # <<>>
       THEN [defined |-> TRUE, income |-> income, expenses |-> expenses,
             suggestions |-> suggestions]
       ELSE Undefined

extractBudgetDataFallback(text) == extractBudgetData(text, <<>>)

TRANSACTION == <<"t", "r", "a", "n", "s", "a", "c", "t", "i", "o", "n">>
SPENT       == <<"s", "p", "e", "n", "t">>
BOUGHT      == <<"b", "o", "u", "g", "h", "t">>
BUDGET      == <<"b", "u", "d", "g", "e", "t">>
LIMIT       == <<"l", "i", "m", "i", "t">>
SALARY      == <<"s", "a", "l", "a", "r", "y">>

\* a variant that looks for budget / limit before transaction / spent / bought
determineAction_LimitFirst(text) ==
    LET lowerInput == ToLowerCase(text) IN
    IF Includes(lowerInput, BUDGET) \/ Includes(lowerInput, LIMIT)
    THEN "set_category_limit"
    ELSE IF Includes(lowerInput, TRANSACTION) \/ Includes(lowerInput, SPENT)
           \/ Includes(lowerInput, BOUGHT)
    THEN "add_transaction"
    ELSE "update_budget"

determineAction(text) ==
    LET lowerInput == ToLowerCase(text) IN
    IF Includes(lowerInput, TRANSACTION) \/ Includes(lowerInput, SPENT)
           \/ Includes(lowerInput, BOUGHT)
    THEN "add_transaction"
    ELSE IF Includes(lowerInput, BUDGET) \/ Includes(lowerInput, LIMIT)
    THEN "set_category_limit"
    ELSE IF Includes(lowerInput, INCOME) \/ Includes(lowerInput, SALARY)
    THEN "update_budget"
    ELSE "update_budget"

\* the two fixed messages, each as a text of one piece
UnavailableMessage ==
    << "AI assistant is currently unavailable. I can still help you parse your budget details manually." >>
TroubleMessage ==
    << "I'm having trouble processing your request right now. Please try again or enter your budget details manually." >>

\* no BudgetAnalysis returned yet
NoAnalysis == [path |-> "none", message |-> <<>>, budgetData |-> Undefined, action |-> NULL]

\* the context argument: undefined, or the form's current values
Contexts == { <<>>, << [currentIncome |-> 5000] >> }

\* the messages of openai.chat.completions.create: the system prompt, which
\* embeds context?.currentIncome || 0, and the user's text
ChatRequest(text, ctx) ==
    [system |-> IF ctx = <<>> THEN 0 ELSE ctx[1].currentIncome, user |-> text]

\* no request sent, nothing received
NoOracleCall == [request |-> <<>>, reply |-> <<>>, threw |-> FALSE]
----------------------------------------------------------------------------
(* BudgetManager.tsx: the form *)

MISCELLANEOUS == <<"m", "i", "s", "c", "e", "l", "l", "a", "n", "e", "o", "u", "s">>

\* the ids of the categories array of BudgetManager
FormCategories == { ExtractCategories[n] : n \in 1..6 } \cup {MISCELLANEOUS}

\* defaultValues of useForm; budgetName '' is <<>>
DefaultForm ==
    [income |-> Zero, budgetName |-> <<>>,
     categoryBudgets |-> [c \in FormCategories |-> Zero]]

\* currentBudgetContext {}: no key
EmptyBudgetContext == [income |-> <<>>, expenses |-> <<>>, suggestions |-> <<>>]

\* the categories array of BudgetManager, in its order
FormCategoryOrder == SubSeq(ExtractCategories, 1, 6) \o <<MISCELLANEOUS>>

\* a - b of two numbers n / d
Difference(a, b) ==
    LET n == a.num * b.den - b.num * a.den
        d == a.den * b.den
    IN IF n >= 0 THEN Ratio(n, d)
       ELSE LET r == Ratio(-n, d) IN [num |-> -r.num, den |-> r.den]

\* Object.values(categoryBudgets).reduce((sum, amount) => sum + (amount || 0), 0)
RECURSIVE TotalBudget(_, _)
TotalBudget(categoryBudgets, n) ==
    IF n = 0 THEN Zero
    ELSE LET rest == TotalBudget(categoryBudgets, n - 1)
             x    == categoryBudgets[FormCategoryOrder[n]]
         IN Ratio(rest.num * x.den + x.num * rest.den, rest.den * x.den)

\* remainingBudget = income - totalBudget
RemainingBudget(values) ==
    Difference(values.income, TotalBudget(values.categoryBudgets, Len(FormCategoryOrder)))

LongMonths == <<"January", "February", "March", "April", "May", "June", "July",
                "August", "September", "October", "November", "December">>

\* `${new Date().toLocaleDateString('en-US', { month: 'long', year: 'numeric' })} Budget`
AutoBudgetName(now, zone) ==
    LET d == LocalDate(now, zone) IN
    << LongMonths[d.month + 1], " ", ToString(d.year), " Budget" >>

\* the amount of the key in the expenses object, <<>> when it has no such key
ExpenseOf(budgetData, category) ==
    LET hits == SelectSeq(budgetData.expenses, LAMBDA e : e.category = category)
    IN IF hits = <<>> THEN <<>> ELSE << hits[1].amount >>

\* a variant that sets every field from the draft, 0 for what the draft lacks
populateFormFromAI_Zeroing(values, budgetData, now, zone) ==
    [income         |-> IF budgetData.income # <<>> THEN budgetData.income[1] ELSE Zero,
     categoryBudgets |-> [c \in FormCategories |->
                            IF ExpenseOf(budgetData, c) # <<>>
                            THEN ExpenseOf(budgetData, c)[1] ELSE Zero],
     budgetName     |-> AutoBudgetName(now, zone)]

\* populateFormFromAI: the form values after it ran on the values before.
\* if (budgetData.income) is false for an absent key and for 0; an entry of
\* expenses is written when a category of the form has its key as id; the name
\* is generated when watch('budgetName') is empty
populateFormFromAI(values, budgetData, now, zone) ==
    [income         |-> IF budgetData.income # <<>> /\ budgetData.income[1] # Zero
                        THEN budgetData.income[1] ELSE values.income,
     categoryBudgets |-> [c \in FormCategories |->
                            IF ExpenseOf(budgetData, c) # <<>>
                            THEN ExpenseOf(budgetData, c)[1]
                            ELSE values.categoryBudgets[c]],
     budgetName     |-> IF values.budgetName = <<>> THEN AutoBudgetName(now, zone)
                        ELSE values.budgetName]

\* prev => ({ ...prev, ...response.budgetData }): the keys of the draft replace
\* those of the context, expenses as a whole
MergeContext(prev, budgetData) ==
    [income      |-> IF budgetData.income # <<>> THEN budgetData.income ELSE prev.income,
     expenses    |-> IF budgetData.expenses # <<>> THEN budgetData.expenses ELSE prev.expenses,
     suggestions |-> IF budgetData.suggestions # <<>> THEN budgetData.suggestions
                     ELSE prev.suggestions]

\* analyzeFinancialInput as a function of the text, the client and what the
\* completion call does: <<>> when it throws, else the reply's content in <<_>>
analyzeFinancialInput(text, client, completion) ==
    IF client = NULL
    THEN [path |-> "noCredential", message |-> UnavailableMessage,
          budgetData |-> extractBudgetDataFallback(text), action |-> NULL]
    ELSE IF completion = <<>>
    THEN [path |-> "failure", message |-> TroubleMessage,
          budgetData |-> extractBudgetDataFallback(text), action |-> NULL]
    ELSE [path |-> "success", message |-> completion[1],
          budgetData |-> extractBudgetData(text, completion[1]),
          action |-> determineAction(text)]

\* conversationHistory.slice(-4)
LastFour(turns) ==
    IF Len(turns) <= 4 THEN turns ELSE SubSeq(turns, Len(turns) - 3, Len(turns))

\* `Budget "${data.budgetName}" created successfully! You have $${remaining} remaining. ...`
SuccessMessage(values) ==
    << "Budget \"" >> \o values.budgetName
       \o << "\" created successfully! You have $", ToString(RemainingBudget(values).num),
             "/", ToString(RemainingBudget(values).den),
             " remaining. Great job planning your finances!" >>

SubmitErrorMessage ==
    << "Sorry, there was an error creating your budget. Please try again." >>

\* the handler that ran last: kind is aiResolved, submitSucceeded, submitFailed
\* (orphanSucceeded, orphanFailed when its component had unmounted), navigate,
\* or other; event and listeners are the event it dispatched and how
\* many listeners received it; draft is the budgetData it was given
NoStep == [kind |-> "none", event |-> <<>>, listeners |-> 0, draft |-> Undefined]
----------------------------------------------------------------------------
(* The state of the components a specification does not run *)

NoRun == [id |-> 0, period |-> "current", outcome |-> "none", rows |-> <<>>]

AsyncIdle ==
    /\ inflight = <<>>
    /\ nextId = 1
    /\ history = <<>>
    /\ shown = NoRun

\* no promise of the provider is pending
NoPendingAuth == [getSession |-> FALSE, signOut |-> FALSE, fetches |-> <<>>]

AuthIdle ==
    /\ userProfile = NULL
    /\ authLoading = TRUE
    /\ session = NULL
    /\ pendingAuth = NoPendingAuth

AppIdle ==
    /\ activeTab = "dashboard"
    /\ conversationHistory = <<>>
    /\ isProcessing = FALSE
    /\ isListening = FALSE
    /\ form = DefaultForm
    /\ currentBudgetContext = EmptyBudgetContext
    /\ calls = <<>>
    /\ recognition = <<>>
    /\ step = NoStep
----------------------------------------------------------------------------
(* The Analytics component as a state machine.                             *)
(* fetchAnalyticsData runs on mount, on the 30 s timer, on budgetUpdated / *)
(* transactionAdded, and when user or selectedPeriod changes.  One run is  *)
(* one step here: it reads the clock and the store and ends in exactly one *)
(* call of setAnalyticsData.  The clock reading, the zone and the table    *)
(* are chosen at the start and then fixed: a run's result depends on no    *)
(* earlier run, so every combination of reading, zone, table and period is *)
(* still covered.                                                          *)

\* dates the clock may show and dates transactions may carry
ClockDates == { MkDate(BaseYear, 11, 15), MkDate(BaseYear + 1, 0, 1),
                MkDate(BaseYear + 1, 1, 15) }
TxDates    == { MkDate(BaseYear, 10, 15), MkDate(BaseYear, 11, 31),
                MkDate(BaseYear + 1, 0, 1) }
TxKinds    == { [amount |-> 100, category |-> "Rent"],
                [amount |-> 40,  category |-> NULL] }

TxRows == { [transaction_date |-> d, amount |-> k.amount, category |-> k.category] :
            d \in TxDates, k \in TxKinds }

RECURSIVE SeqsUpTo(_, _)
SeqsUpTo(S, n) ==
    IF n = 0 THEN {<<>>}
    ELSE LET shorter == SeqsUpTo(S, n - 1) IN
         shorter \cup { Append(q, x) : q \in shorter, x \in S }

ClockReadings(zone) ==
    { Instant(d, k, zone) : d \in ClockDates, k \in 0..(TicksPerDay - 1) }

NoFetch ==
    [outcome |-> "none", period |-> "current", now |-> 0,
     startDate |-> 0, endDate |-> 0, transactions |-> <<>>]

Init ==
    /\ user = "u1"
    /\ selectedPeriod = "current"
    /\ analyticsData = EmptyAnalytics
    /\ loading = TRUE
    /\ fetched = NoFetch
    /\ tz \in TZOffsets
    /\ clock \in ClockReadings(tz)
    /\ store \in SeqsUpTo(TxRows, MaxTx)
    /\ rNow = 0 /\ rPeriod = "current" /\ rStart = 0
    /\ openai = NULL /\ input = <<>> /\ analysis = NoAnalysis
    /\ context = <<>> /\ oracle = NoOracleCall /\ twin = NoAnalysis
    /\ stats = InitialStats /\ dashLoading = TRUE /\ dashFetched = NoDashFetch /\ db = EmptyDb
    /\ AsyncIdle /\ AuthIdle /\ AppIdle

\* what starts a run: the select changed to p, or the timer, an event or the
\* mount with the period already selected (p = selectedPeriod)
Trigger(p) ==
    /\ user # NULL
    /\ selectedPeriod' = p

\* the budgets query returns an error: throw, caught, sample data
FetchBudgetsError(p) ==
    /\ Trigger(p)
    /\ analyticsData' = SampleAnalytics
    /\ fetched' = [NoFetch EXCEPT !.outcome = "budgetsError", !.period = p, !.now = clock]
    /\ loading' = FALSE
    /\ UNCHANGED <<user, tz, clock, store>>

\* the user has no active budget: empty state
FetchNoBudgets(p) ==
    /\ Trigger(p)
    /\ analyticsData' = EmptyAnalytics
    /\ fetched' = [NoFetch EXCEPT !.outcome = "noBudgets", !.period = p, !.now = clock]
    /\ loading' = FALSE
    /\ UNCHANGED <<user, tz, clock, store>>

\* budgets found; the transactions query answers with rows, or with an error
\* (data null, "continue with empty transactions array")
FetchComputed(p, txError) ==
    /\ Trigger(p)
    /\ LET startDate    == getStartDateForPeriod(p, clock, tz)
           endDate      == clock
           transactions ==
               IF txError THEN <<>>
               ELSE QueryTransactions(store, ToISODate(startDate), ToISODate(endDate))
       IN /\ analyticsData' = Aggregate(transactions, startDate, endDate, tz)
          /\ fetched' = [outcome |-> IF txError THEN "transactionsError" ELSE "computed",
                         period |-> p, now |-> clock,
                         startDate |-> startDate, endDate |-> endDate,
                         transactions |-> transactions]
    /\ loading' = FALSE
    /\ UNCHANGED <<user, tz, clock, store>>

Next ==
    \/ \E p \in PeriodKeys :
          /\ FetchBudgetsError(p)
          /\ UNCHANGED <<resolverVars, extractVars, dashboardVars, asyncVars, authVars, appVars>>
    \/ \E p \in PeriodKeys :
          /\ FetchNoBudgets(p)
          /\ UNCHANGED <<resolverVars, extractVars, dashboardVars, asyncVars, authVars, appVars>>
    \/ \E p \in PeriodKeys, txError \in BOOLEAN :
          /\ FetchComputed(p, txError)
          /\ UNCHANGED <<resolverVars, extractVars, dashboardVars, asyncVars, authVars, appVars>>

Spec == Init /\ [][Next]_vars
----------------------------------------------------------------------------
(* The period resolver on its own: getStartDateForPeriod for every clock   *)
(* reading of two calendar years, in every zone.                           *)

AllDates ==
    { date \in { MkDate(y, m, d) : y \in {BaseYear, BaseYear + 1}, m \in 0..11, d \in 1..31 } :
        date.day <= DaysInMonth(date.year, date.month) }

AllReadings(zone) ==
    { Instant(date, k, zone) : date \in AllDates, k \in 0..(TicksPerDay - 1) }

InitPeriod ==
    /\ user = "u1"
    /\ selectedPeriod = "current"
    /\ analyticsData = EmptyAnalytics
    /\ loading = TRUE
    /\ fetched = NoFetch
    /\ tz \in TZOffsets
    /\ clock = 0
    /\ store = <<>>
    /\ rNow \in AllReadings(tz)
    /\ rPeriod = "none" /\ rStart = 0
    /\ openai = NULL /\ input = <<>> /\ analysis = NoAnalysis
    /\ context = <<>> /\ oracle = NoOracleCall /\ twin = NoAnalysis
    /\ stats = InitialStats /\ dashLoading = TRUE /\ dashFetched = NoDashFetch /\ db = EmptyDb
    /\ AsyncIdle /\ AuthIdle /\ AppIdle

ResolvePeriod(p) ==
    /\ rPeriod' = p
    /\ rStart' = getStartDateForPeriod(p, rNow, tz)
    /\ UNCHANGED rNow

NextPeriod ==
    \E p \in PeriodKeys : ResolvePeriod(p) /\ UNCHANGED <<analyticsVars, extractVars, dashboardVars, asyncVars, authVars, appVars>>

SpecPeriod == InitPeriod /\ [][NextPeriod]_vars
----------------------------------------------------------------------------
(* analyzeFinancialInput applied to a text.  `analysis` holds the returned   *)
(* BudgetAnalysis and, in `path`, the branch that returned it; action is     *)
(* NULL where the returned object has no action key.                         *)

\* the texts: an opener, a separator, a written amount, a tail
Openers == { <<"M", "y", " ", "i", "n", "c", "o", "m", "e">>,
             <<"R", "e", "n", "t">>, <<"s", "a", "l", "a", "r", "y">> }
Separators == { <<" ">>, <<":", " ", "$">>, <<" ", "i", "s", " ">>, <<" ", "i", "s", " ", "$">> }
Heads == { <<"3">>, <<"1", "2", "0", "0">> }
GroupForms == { <<",", "2", "0">>, <<",", "0", "0", "0">> }
Fractions == { <<>>, <<".", "5">>, <<".", "5", "0">> }
Tails == { <<>>,
           <<" ", "a", "n", "d", " ", "r", "e", "n", "t", " ", "i", "s", " ", "1", "2", "0", "0">>,
           <<",", " ", "i", "n", "c", "o", "m", "e", " ", "5", "0", "0", "0">> }

RECURSIVE Concat(_)
Concat(pieces) == IF pieces = <<>> THEN <<>> ELSE Head(pieces) \o Concat(Tail(pieces))

WrittenAmounts ==
    { h \o Concat(gs) \o f : h \in Heads, gs \in SeqsUpTo(GroupForms, MaxGroups),
                             f \in Fractions }
    \cup { <<>>, <<"l", "o", "t", "s">> }

Texts == { o \o sep \o amt \o t :
             o \in Openers, sep \in Separators, amt \in WrittenAmounts, t \in Tails }

\* what the completion oracle may reply
Replies == { <<>>, <<"s", "a", "v", "e", " ", "m", "o", "r", "e">>,
             <<"r", "e", "n", "t", " ", "9", " ", "f", "u", "n", "d">> }

InitExtract ==
    /\ user = "u1"
    /\ selectedPeriod = "current"
    /\ analyticsData = EmptyAnalytics
    /\ loading = TRUE
    /\ fetched = NoFetch
    /\ tz = 0
    /\ clock = 0
    /\ store = <<>>
    /\ rNow = 0 /\ rPeriod = "none" /\ rStart = 0
    /\ openai \in {NULL, "client"}
    /\ input \in Texts
    /\ analysis = NoAnalysis
    /\ context = <<>> /\ oracle = NoOracleCall /\ twin = NoAnalysis
    /\ stats = InitialStats /\ dashLoading = TRUE /\ dashFetched = NoDashFetch /\ db = EmptyDb
    /\ AsyncIdle /\ AuthIdle /\ AppIdle

\* a variant that asks the oracle before it looks at the client: the call on
\* null throws and the catch block answers
AnalyzeNoCredential_Unchecked(ctx) ==
    /\ openai = NULL
    /\ context' = ctx
    /\ oracle' = NoOracleCall
    /\ analysis' = [path |-> "noCredential", message |-> TroubleMessage,
                    budgetData |-> extractBudgetDataFallback(input), action |-> NULL]
    /\ UNCHANGED <<openai, input, twin>>

\* no client: the fixed message and the fallback extraction, nothing is sent
AnalyzeNoCredential(ctx) ==
    /\ openai = NULL
    /\ context' = ctx
    /\ oracle' = NoOracleCall
    /\ analysis' = [path |-> "noCredential", message |-> UnavailableMessage,
                    budgetData |-> extractBudgetDataFallback(input), action |-> NULL]
    /\ UNCHANGED <<openai, input, twin>>

\* the completion arrives: choices[0]?.message?.content || ''
AnalyzeSuccess(ctx, response) ==
    /\ openai # NULL
    /\ context' = ctx
    /\ oracle' = [request |-> << ChatRequest(input, ctx) >>, reply |-> << response >>,
                  threw |-> FALSE]
    /\ analysis' = [path |-> "success", message |-> response,
                    budgetData |-> extractBudgetData(input, response),
                    action |-> determineAction(input)]
    /\ UNCHANGED <<openai, input, twin>>

\* a variant without the try / catch: the rejection reaches the caller
AnalyzeFailure_Propagates(ctx) ==
    /\ openai # NULL
    /\ context' = ctx
    /\ oracle' = [request |-> << ChatRequest(input, ctx) >>, reply |-> <<>>, threw |-> TRUE]
    /\ analysis' = [NoAnalysis EXCEPT !.path = "raised"]
    /\ UNCHANGED <<openai, input, twin>>

\* the call throws: caught, the fixed message and the fallback extraction
AnalyzeFailure(ctx) ==
    /\ openai # NULL
    /\ context' = ctx
    /\ oracle' = [request |-> << ChatRequest(input, ctx) >>, reply |-> <<>>, threw |-> TRUE]
    /\ analysis' = [path |-> "failure", message |-> TroubleMessage,
                    budgetData |-> extractBudgetDataFallback(input), action |-> NULL]
    /\ UNCHANGED <<openai, input, twin>>

NextExtract ==
    \/ \E ctx \in Contexts :
          AnalyzeNoCredential(ctx) /\ UNCHANGED <<analyticsVars, resolverVars, dashboardVars, asyncVars, authVars, appVars>>
    \/ \E ctx \in Contexts, response \in Replies :
          AnalyzeSuccess(ctx, response) /\ UNCHANGED <<analyticsVars, resolverVars, dashboardVars, asyncVars, authVars, appVars>>
    \/ \E ctx \in Contexts :
          AnalyzeFailure(ctx) /\ UNCHANGED <<analyticsVars, resolverVars, dashboardVars, asyncVars, authVars, appVars>>

SpecExtract == InitExtract /\ [][NextExtract]_vars
----------------------------------------------------------------------------
(* Two deployments given the same text: one built without                    *)
(* VITE_OPENAI_API_KEY, which answers in `analysis`, and one built with a    *)
(* key whose oracle call fails, which answers in `twin`.                     *)

InitTwin ==
    /\ user = "u1"
    /\ selectedPeriod = "current"
    /\ analyticsData = EmptyAnalytics
    /\ loading = TRUE
    /\ fetched = NoFetch
    /\ tz = 0
    /\ clock = 0
    /\ store = <<>>
    /\ rNow = 0 /\ rPeriod = "none" /\ rStart = 0
    /\ openai = NULL
    /\ input \in Texts
    /\ analysis = NoAnalysis
    /\ context = <<>> /\ oracle = NoOracleCall /\ twin = NoAnalysis
    /\ stats = InitialStats /\ dashLoading = TRUE /\ dashFetched = NoDashFetch /\ db = EmptyDb
    /\ AsyncIdle /\ AuthIdle /\ AppIdle

\* a variant whose catch block classifies the text as the success path does
TwinFailure_WithAction(ctx) ==
    /\ twin' = [path |-> "failure", message |-> TroubleMessage,
                budgetData |-> extractBudgetDataFallback(input),
                action |-> determineAction(input)]
    /\ UNCHANGED <<openai, input, analysis, context, oracle>>

\* the second deployment's call throws: the catch block of analyzeFinancialInput
TwinFailure(ctx) ==
    /\ twin' = [path |-> "failure", message |-> TroubleMessage,
                budgetData |-> extractBudgetDataFallback(input), action |-> NULL]
    /\ UNCHANGED <<openai, input, analysis, context, oracle>>

NextTwin ==
    \/ \E ctx \in Contexts :
          AnalyzeNoCredential(ctx) /\ UNCHANGED <<analyticsVars, resolverVars, dashboardVars, asyncVars, authVars, appVars>>
    \/ \E ctx \in Contexts :
          TwinFailure(ctx) /\ UNCHANGED <<analyticsVars, resolverVars, dashboardVars, asyncVars, authVars, appVars>>

SpecTwin == InitTwin /\ [][NextTwin]_vars
----------------------------------------------------------------------------
(* determineAction on texts of a few words: every keyword of the three       *)
(* families in some letter case, alone and in pairs in either order.         *)

ActionWords ==
    { <<"S", "p", "e", "n", "t">>, <<"b", "o", "u", "g", "h", "t">>,
      <<"T", "r", "a", "n", "s", "a", "c", "t", "i", "o", "n">>,
      <<"B", "U", "D", "G", "E", "T">>, <<"u", "n", "l", "i", "m", "i", "t", "e", "d">>,
      <<"i", "n", "c", "o", "m", "e">>, <<"S", "a", "l", "a", "r", "y">>,
      <<"h", "e", "l", "l", "o">> }

RECURSIVE JoinWords(_)
JoinWords(words) ==
    IF words = <<>> THEN <<>>
    ELSE IF Len(words) = 1 THEN words[1]
    ELSE words[1] \o <<" ">> \o JoinWords(Tail(words))

ActionTexts == { JoinWords(ws) : ws \in SeqsUpTo(ActionWords, MaxWords) }

InitAction ==
    /\ user = "u1"
    /\ selectedPeriod = "current"
    /\ analyticsData = EmptyAnalytics
    /\ loading = TRUE
    /\ fetched = NoFetch
    /\ tz = 0
    /\ clock = 0
    /\ store = <<>>
    /\ rNow = 0 /\ rPeriod = "none" /\ rStart = 0
    /\ openai = "client"
    /\ input \in ActionTexts
    /\ analysis = NoAnalysis
    /\ context = <<>> /\ oracle = NoOracleCall /\ twin = NoAnalysis
    /\ stats = InitialStats /\ dashLoading = TRUE /\ dashFetched = NoDashFetch /\ db = EmptyDb
    /\ AsyncIdle /\ AuthIdle /\ AppIdle

NextAction ==
    \E ctx \in Contexts, response \in Replies :
        AnalyzeSuccess(ctx, response) /\ UNCHANGED <<analyticsVars, resolverVars, dashboardVars, asyncVars, authVars, appVars>>

SpecAction == InitAction /\ [][NextAction]_vars
----------------------------------------------------------------------------
(* The Dashboard component as a state machine.  fetchDashboardStats runs     *)
(* when user is set; one run is one step: it reads the clock and the three   *)
(* tables and ends in one call of setStats and setLoading(false).  The       *)
(* tables, the clock reading and the zone are chosen at the start.           *)

RECURSIVE SubSequences(_)
SubSequences(q) ==
    IF q = <<>> THEN {<<>>}
    ELSE LET rest == SubSequences(Tail(q)) IN
         rest \cup { <<Head(q)>> \o x : x \in rest }

BudgetRow(id, uid, income, active) ==
    [id |-> id, user_id |-> uid, total_income |-> income, is_active |-> active]

\* the budgets table: the user's active and earlier budgets, another user's
BudgetTables ==
    { <<>>,
      << BudgetRow("b1", "u1", 1000, TRUE) >>,
      << BudgetRow("b3", "u2", 700, TRUE) >>,
      << BudgetRow("b1", "u1", 1000, TRUE), BudgetRow("b2", "u1", 500, FALSE) >>,
      << BudgetRow("b3", "u2", 700, TRUE), BudgetRow("b1", "u1", 1000, TRUE),
         BudgetRow("b2", "u1", 500, FALSE) >> }

TransactionRow(bid, amount, date) ==
    [budget_id |-> bid, amount |-> amount, transaction_date |-> date]

TransactionTables ==
    SubSequences(<< TransactionRow("b1", 200, MkDate(BaseYear + 1, 0, 1)),
                    TransactionRow("b2", 2000, MkDate(BaseYear, 11, 31)),
                    TransactionRow("b3", 70, MkDate(BaseYear + 1, 0, 1)),
                    TransactionRow("b1", 30, MkDate(BaseYear, 10, 15)) >>)

EmiRow(uid, months) == [user_id |-> uid, remaining_months |-> months]

EmiTables ==
    { <<>>,
      << EmiRow("u1", 3), EmiRow("u1", 0) >>,
      << EmiRow("u2", 5), EmiRow("u1", 3), EmiRow("u1", 12) >> }

InitDashboard ==
    /\ user = "u1"
    /\ selectedPeriod = "current"
    /\ analyticsData = EmptyAnalytics
    /\ loading = TRUE
    /\ fetched = NoFetch
    /\ tz \in TZOffsets
    /\ clock \in ClockReadings(tz)
    /\ store = <<>>
    /\ rNow = 0 /\ rPeriod = "none" /\ rStart = 0
    /\ openai = NULL /\ input = <<>> /\ analysis = NoAnalysis
    /\ context = <<>> /\ oracle = NoOracleCall /\ twin = NoAnalysis
    /\ stats = InitialStats /\ dashLoading = TRUE /\ dashFetched = NoDashFetch
    /\ db \in [budgets : BudgetTables, transactions : TransactionTables, emis : EmiTables]
    /\ AsyncIdle /\ AuthIdle /\ AppIdle

\* the queries that can answer with an error in a run: the transactions query is
\* sent only when the budgets query returned rows
Queries == {"budgets", "transactions", "emis"}

TransactionsQuerySent(errors) ==
    "budgets" \notin errors /\ QueryBudgets(db.budgets, user) # <<>>

\* a variant that gives up on the first query error, as a throw would
DashboardComputed_ThrowOnError(errors) ==
    /\ user # NULL
    /\ "transactions" \in errors => TransactionsQuerySent(errors)
    /\ LET budgets      == IF "budgets" \in errors THEN <<>>
                           ELSE QueryBudgets(db.budgets, user)
           lower        == ToISODate(StartOfMonth(clock, tz))
           transactions == IF budgets # <<>> /\ "transactions" \notin errors
                           THEN QueryMonthTransactions(db.transactions, budgets, lower)
                           ELSE <<>>
           emis         == IF "emis" \in errors THEN <<>> ELSE QueryEmis(db.emis, user)
       IN /\ stats' = IF errors # {} THEN InitialStats
                      ELSE Summarize(budgets, transactions, emis)
          /\ dashFetched' = [outcome |-> "computed", errors |-> errors,
                             lowerBound |-> IF budgets # <<>> THEN <<lower>> ELSE <<>>,
                             budgets |-> budgets, transactions |-> transactions,
                             emis |-> emis]
    /\ dashLoading' = FALSE
    /\ UNCHANGED db

\* a run in which no await rejects; the queries in `errors` answer with an
\* error: it is logged, data is null and the run goes on
DashboardComputed(errors) ==
    /\ user # NULL
    /\ "transactions" \in errors => TransactionsQuerySent(errors)
    /\ LET budgets      == IF "budgets" \in errors THEN <<>>
                           ELSE QueryBudgets(db.budgets, user)
           lower        == ToISODate(StartOfMonth(clock, tz))
           transactions == IF budgets # <<>> /\ "transactions" \notin errors
                           THEN QueryMonthTransactions(db.transactions, budgets, lower)
                           ELSE <<>>
           emis         == IF "emis" \in errors THEN <<>> ELSE QueryEmis(db.emis, user)
       IN /\ stats' = Summarize(budgets, transactions, emis)
          /\ dashFetched' = [outcome |-> "computed", errors |-> errors,
                             lowerBound |-> IF budgets # <<>> THEN <<lower>> ELSE <<>>,
                             budgets |-> budgets, transactions |-> transactions,
                             emis |-> emis]
    /\ dashLoading' = FALSE
    /\ UNCHANGED db

\* an await rejects: the catch block sets the default values
DashboardThrows ==
    /\ user # NULL
    /\ stats' = InitialStats
    /\ dashFetched' = [NoDashFetch EXCEPT !.outcome = "thrown"]
    /\ dashLoading' = FALSE
    /\ UNCHANGED db

NextDashboard ==
    \/ \E errors \in SUBSET Queries :
          /\ DashboardComputed(errors)
          /\ UNCHANGED <<analyticsVars, resolverVars, extractVars, asyncVars, authVars, appVars>>
    \/ /\ DashboardThrows
       /\ UNCHANGED <<analyticsVars, resolverVars, extractVars, asyncVars, authVars, appVars>>

SpecDashboard == InitDashboard /\ [][NextDashboard]_vars
----------------------------------------------------------------------------
(* Overlapping runs of fetchAnalyticsData.  A run starts on mount, on the    *)
(* timer, on budgetUpdated / transactionAdded and when selectedPeriod        *)
(* changes (the effect runs again); nothing cancels a run.  A run sends its  *)
(* queries, the store answers them from the rows it holds at that moment,    *)
(* and later the run resumes and calls setAnalyticsData.  The period is the  *)
(* one of the render that started the run.                                   *)

\* the rows other sessions write while the component is shown, in this order
AsyncStore ==
    << [transaction_date |-> MkDate(BaseYear, 11, 31), amount |-> 100, category |-> "Rent"],
       [transaction_date |-> MkDate(BaseYear + 1, 0, 1), amount |-> 40, category |-> NULL] >>

AsyncClock == Instant(MkDate(BaseYear + 1, 1, 15), 1, 0)

\* the options the user picks here: the three whose ranges hold different rows
\* of AsyncStore (last6 holds the rows of last3)
AsyncPeriods == {"current", "last3", "year"}

InitAsync ==
    /\ user = "u1"
    /\ selectedPeriod = "current"
    /\ analyticsData = EmptyAnalytics
    /\ loading = TRUE
    /\ fetched = NoFetch
    /\ tz = 0
    /\ clock = AsyncClock
    /\ store = <<>>
    /\ rNow = 0 /\ rPeriod = "none" /\ rStart = 0
    /\ openai = NULL /\ input = <<>> /\ analysis = NoAnalysis
    /\ context = <<>> /\ oracle = NoOracleCall /\ twin = NoAnalysis
    /\ stats = InitialStats /\ dashLoading = TRUE /\ dashFetched = NoDashFetch /\ db = EmptyDb
    /\ AsyncIdle /\ AuthIdle /\ AppIdle

\* fetchAnalyticsData is called: the run is in flight with the period of its render
StartFetch(p) ==
    /\ user # NULL
    /\ nextId <= MaxFetches
    /\ inflight' = Append(inflight, [id |-> nextId, period |-> p, outcome |-> "sent",
                                     rows |-> <<>>])
    /\ nextId' = nextId + 1

\* the timer fires, an event arrives, or the component mounts
Refresh ==
    /\ StartFetch(selectedPeriod)
    /\ UNCHANGED <<user, selectedPeriod, analyticsData, loading, fetched, tz, clock, store,
                   history, shown>>

\* a variant whose effect does not depend on selectedPeriod: no run starts
SelectPeriod_NoRefetch(p) ==
    /\ p # selectedPeriod
    /\ nextId <= MaxFetches
    /\ selectedPeriod' = p
    /\ UNCHANGED <<user, analyticsData, loading, fetched, tz, clock, store,
                   inflight, nextId, history, shown>>

\* the select changes: setSelectedPeriod, the effect runs again and starts a run
SelectPeriod(p) ==
    /\ p # selectedPeriod
    /\ selectedPeriod' = p
    /\ StartFetch(p)
    /\ UNCHANGED <<user, analyticsData, loading, fetched, tz, clock, store, history, shown>>

\* another session writes a row
StoreChanges ==
    /\ Len(store) < Len(AsyncStore)
    /\ store' = SubSeq(AsyncStore, 1, Len(store) + 1)
    /\ UNCHANGED <<user, selectedPeriod, analyticsData, loading, fetched, tz, clock,
                   inflight, nextId, history, shown>>

\* the store answers the run's queries: an error for the budgets query, or the
\* rows in the run's range
AnswerFetch(k, error) ==
    /\ k \in 1..Len(inflight)
    /\ inflight[k].outcome = "sent"
    /\ LET startDate == getStartDateForPeriod(inflight[k].period, clock, tz)
           rows      == QueryTransactions(store, ToISODate(startDate), ToISODate(clock))
       IN inflight' = [inflight EXCEPT ![k] =
              IF error THEN [@ EXCEPT !.outcome = "budgetsError"]
              ELSE [@ EXCEPT !.outcome = "computed", !.rows = rows]]
    /\ UNCHANGED <<user, selectedPeriod, analyticsData, loading, fetched, tz, clock, store,
                   nextId, history, shown>>

\* what a run computes from what it was answered
ResultOf(run) ==
    IF run.outcome = "budgetsError" THEN SampleAnalytics
    ELSE Aggregate(run.rows, getStartDateForPeriod(run.period, clock, tz), clock, tz)

\* a variant that adds the new total to the one on display
setAnalyticsData_Merge(prev, next) ==
    [next EXCEPT !.totalSpent = prev.totalSpent + next.totalSpent]

\* setAnalyticsData(newAnalyticsData): the state is replaced as a whole
setAnalyticsData(prev, next) == next

\* the log of resolved runs keeps the latest two
Resolved(log, run) == IF log = <<>> THEN <<run>> ELSE << log[Len(log)], run >>

Without(q, k) == SubSeq(q, 1, k - 1) \o SubSeq(q, k + 1, Len(q))

\* a variant that drops the result of a run when a run started later has resolved
CompleteFetch_IgnoreStale(k) ==
    /\ k \in 1..Len(inflight)
    /\ inflight[k].outcome # "sent"
    /\ LET run   == inflight[k]
           stale == \E h \in 1..Len(history) : history[h].id > run.id
       IN /\ analyticsData' = IF stale THEN analyticsData
                              ELSE setAnalyticsData(analyticsData, ResultOf(run))
          /\ shown' = IF stale THEN shown ELSE run
          /\ history' = Resolved(history, run)
          /\ UNCHANGED fetched
    /\ loading' = FALSE
    /\ inflight' = Without(inflight, k)
    /\ UNCHANGED <<user, selectedPeriod, tz, clock, store, nextId>>

\* an answered run resumes: setAnalyticsData, setLoading(false)
CompleteFetch(k) ==
    /\ k \in 1..Len(inflight)
    /\ inflight[k].outcome # "sent"
    /\ LET run == inflight[k] IN
          /\ analyticsData' = setAnalyticsData(analyticsData, ResultOf(run))
          /\ fetched' =
                IF run.outcome = "budgetsError"
                THEN [NoFetch EXCEPT !.outcome = "budgetsError", !.period = run.period,
                                     !.now = clock]
                ELSE [outcome |-> "computed", period |-> run.period, now |-> clock,
                      startDate |-> getStartDateForPeriod(run.period, clock, tz),
                      endDate |-> clock, transactions |-> run.rows]
          /\ shown' = run
          /\ history' = Resolved(history, run)
    /\ loading' = FALSE
    /\ inflight' = Without(inflight, k)
    /\ UNCHANGED <<user, selectedPeriod, tz, clock, store, nextId>>

AsyncRest == <<resolverVars, extractVars, dashboardVars, authVars, appVars>>

NextAsync ==
    \/ Refresh /\ UNCHANGED AsyncRest
    \/ \E p \in AsyncPeriods : SelectPeriod(p) /\ UNCHANGED AsyncRest
    \/ StoreChanges /\ UNCHANGED AsyncRest
    \/ \E k \in 1..MaxFetches, error \in BOOLEAN : AnswerFetch(k, error) /\ UNCHANGED AsyncRest
    \/ \E k \in 1..MaxFetches : CompleteFetch(k) /\ UNCHANGED AsyncRest

SpecAsync == InitAsync /\ [][NextAsync]_vars
----------------------------------------------------------------------------
(* AuthContext.tsx: AuthProvider.  The effect asks for the initial session   *)
(* and subscribes to auth changes.  The getSession continuation calls        *)
(* fetchUserProfile without awaiting it; the onAuthStateChange callback      *)
(* awaits it.  The auth client delivers one event at a time: no event is     *)
(* delivered while a callback awaits its profile.  A profile is modelled by  *)
(* the id of its row.                                                        *)

UserIds == {"u1", "u2"}

InitAuth ==
    /\ user = NULL
    /\ userProfile = NULL
    /\ authLoading = TRUE
    /\ session \in UserIds \cup {NULL}
    /\ pendingAuth = [NoPendingAuth EXCEPT !.getSession = TRUE]
    /\ selectedPeriod = "current"
    /\ analyticsData = EmptyAnalytics
    /\ loading = TRUE
    /\ fetched = NoFetch
    /\ tz = 0
    /\ clock = 0
    /\ store = <<>>
    /\ rNow = 0 /\ rPeriod = "none" /\ rStart = 0
    /\ openai = NULL /\ input = <<>> /\ analysis = NoAnalysis
    /\ context = <<>> /\ oracle = NoOracleCall /\ twin = NoAnalysis
    /\ stats = InitialStats /\ dashLoading = TRUE /\ dashFetched = NoDashFetch /\ db = EmptyDb
    /\ AsyncIdle /\ AppIdle

CallbackAwaiting == \E k \in 1..Len(pendingAuth.fetches) : pendingAuth.fetches[k].awaited

\* getSession().then: setUser, fetchUserProfile (not awaited), setLoading(false)
GetSessionResolves ==
    /\ pendingAuth.getSession
    /\ Len(pendingAuth.fetches) < MaxProfileFetches
    /\ user' = session
    /\ authLoading' = FALSE
    /\ pendingAuth' =
          [pendingAuth EXCEPT !.getSession = FALSE,
              !.fetches = IF session # NULL
                          THEN Append(@, [userId |-> session, awaited |-> FALSE])
                          ELSE @]
    /\ UNCHANGED <<userProfile, session>>

\* the onAuthStateChange callback up to its await: setUser, then
\* fetchUserProfile for a session, setUserProfile(null) and setLoading(false)
\* without one
OnAuthStateChange(s) ==
    /\ user' = s
    /\ IF s # NULL
       THEN /\ pendingAuth' = [pendingAuth EXCEPT
                                  !.fetches = Append(@, [userId |-> s, awaited |-> TRUE])]
            /\ UNCHANGED <<userProfile, authLoading>>
       ELSE /\ userProfile' = NULL
            /\ authLoading' = FALSE
            /\ UNCHANGED pendingAuth

\* the session changes (sign-in, token refresh, sign-out in another tab) and the
\* client delivers the event
AuthEvent(s) ==
    /\ ~CallbackAwaiting
    /\ Len(pendingAuth.fetches) < MaxProfileFetches
    /\ s # NULL \/ session # NULL
    /\ session' = s
    /\ OnAuthStateChange(s)

\* signOut(): supabase.auth.signOut() ends the session and delivers SIGNED_OUT;
\* the function's own continuation is pending
SignOut ==
    /\ ~CallbackAwaiting
    /\ ~pendingAuth.signOut
    /\ session # NULL
    /\ session' = NULL
    /\ user' = NULL
    /\ userProfile' = NULL
    /\ authLoading' = FALSE
    /\ pendingAuth' = [pendingAuth EXCEPT !.signOut = TRUE]

\* signOut() resumes: setUserProfile(null)
SignOutContinues ==
    /\ pendingAuth.signOut
    /\ userProfile' = NULL
    /\ pendingAuth' = [pendingAuth EXCEPT !.signOut = FALSE]
    /\ UNCHANGED <<user, authLoading, session>>

\* fetchUserProfile resumes: setUserProfile(data) for a row, setUserProfile(null)
\* for none or an error; a callback that awaited it goes on to setLoading(false)
ProfileFetchResolves(k, found) ==
    /\ k \in 1..Len(pendingAuth.fetches)
    /\ LET f == pendingAuth.fetches[k] IN
          /\ userProfile' = IF found THEN f.userId ELSE NULL
          /\ authLoading' = IF f.awaited THEN FALSE ELSE authLoading
    /\ pendingAuth' = [pendingAuth EXCEPT !.fetches = Without(@, k)]
    /\ UNCHANGED <<user, session>>

AuthRest == <<selectedPeriod, analyticsData, loading, fetched, tz, clock, store,
              resolverVars, extractVars, dashboardVars, asyncVars, appVars>>

NextAuth ==
    \/ GetSessionResolves /\ UNCHANGED AuthRest
    \/ \E s \in UserIds \cup {NULL} : AuthEvent(s) /\ UNCHANGED AuthRest
    \/ SignOut /\ UNCHANGED AuthRest
    \/ SignOutContinues /\ UNCHANGED AuthRest
    \/ \E k \in 1..MaxProfileFetches, found \in BOOLEAN :
          ProfileFetchResolves(k, found) /\ UNCHANGED AuthRest

SpecAuth == InitAuth /\ [][NextAuth]_vars

----------------------------------------------------------------------------
(* App.tsx and BudgetManager.tsx.  App mounts exactly one component, the one *)
(* of activeTab.  BudgetManager's handlers are asynchronous: processAIInput  *)
(* awaits analyzeFinancialInput and onSubmit awaits the insert, and `calls`  *)
(* holds those that have not resumed.  The Send handler is the one of the    *)
(* latest render; recognition.onresult calls the processAIInput of the       *)
(* render in which listening started, which sees the conversationHistory of  *)
(* that render.  Leaving the budget tab unmounts BudgetManager: its state is *)
(* gone and what an insert in flight still does is write the row and         *)
(* dispatch the event.  The completion service is up or down for a whole     *)
(* behaviour: oracle.threw says whether its calls throw.                     *)

Tabs == {"dashboard", "budget", "analytics", "emi"}

\* what the user types or says
AppTexts ==
    { <<"i", "n", "c", "o", "m", "e", " ", "3", "0", "0", "0", " ", "r", "e", "n", "t", " ", "1", "2", "0", "0">>,
      <<"u", "t", "i", "l", "i", "t", "i", "e", "s", " ", "1", "0", "0", " ", "g", "r", "o", "c", "e", "r", "i", "e", "s", " ", "3", "0", "0">>,
      <<"h", "i">> }

\* what the completion call does: it throws, or the oracle replies
Completions == { <<>>, << <<"s", "a", "v", "e", " ", "m", "o", "r", "e">> >> }

\* what the user types into the budget name field
TypedNames == { <<"P", "l", "a", "n">> }

AppClock == Instant(MkDate(BaseYear + 1, 1, 15), 1, 0)

\* the BudgetAnalysis of every text under every outcome of the completion call
Analyses ==
    [t \in AppTexts |->
        [client \in {NULL, "client"} |->
            [completion \in Completions |->
                analyzeFinancialInput(t, client, completion)]]]

InitApp ==
    /\ user = "u1"
    /\ openai \in {NULL, "client"}
    /\ oracle \in {NoOracleCall} \cup
                 (IF openai = NULL THEN {} ELSE {[NoOracleCall EXCEPT !.threw = TRUE]})
    /\ tz = 0
    /\ clock = AppClock
    /\ selectedPeriod = "current"
    /\ analyticsData = EmptyAnalytics
    /\ loading = TRUE
    /\ fetched = NoFetch
    /\ store = <<>>
    /\ rNow = 0 /\ rPeriod = "none" /\ rStart = 0
    /\ input = <<>> /\ analysis = NoAnalysis
    /\ context = <<>> /\ twin = NoAnalysis
    /\ stats = InitialStats /\ dashLoading = TRUE /\ dashFetched = NoDashFetch /\ db = EmptyDb
    /\ AsyncIdle /\ AuthIdle /\ AppIdle

\* a handler that has not resumed
Call(kind, text, values) == [kind |-> kind, text |-> text, data |-> values, orphan |-> FALSE]

Inserts == SelectSeq(calls, LAMBDA c : c.kind = "insert")

\* setActiveTab: the component of the old tab unmounts, the one of the new tab
\* mounts with its initial state
Navigate(tab) ==
    /\ tab \in Tabs /\ tab # activeTab
    /\ activeTab' = tab
    /\ conversationHistory' = <<>>
    /\ isProcessing' = FALSE
    /\ isListening' = FALSE
    /\ form' = DefaultForm
    /\ currentBudgetContext' = EmptyBudgetContext
    /\ recognition' = <<>>
    /\ calls' = [k \in 1..Len(Inserts) |-> [Inserts[k] EXCEPT !.orphan = TRUE]]
    /\ step' = [NoStep EXCEPT !.kind = "navigate"]
    /\ UNCHANGED <<db, analysis>>

\* processAIInput up to its await, called with the conversationHistory `seen`
\* by the render it belongs to
processAIInput(text, seen) ==
    /\ activeTab = "budget"
    /\ Len(conversationHistory) + Len(calls) + 2 <= MaxTurns
    /\ isProcessing' = TRUE
    /\ conversationHistory' = Append(seen, [type |-> "user", message |-> text])
    /\ calls' = Append(calls, Call("ai", text, DefaultForm))
    /\ UNCHANGED <<activeTab, form, currentBudgetContext, db, analysis>>

\* the Send button, enabled when nothing is processing and the text is not blank
SendTyped(text) ==
    /\ ~isProcessing
    /\ processAIInput(text, conversationHistory)
    /\ step' = [NoStep EXCEPT !.kind = "other"]
    /\ UNCHANGED <<isListening, recognition>>

\* the Voice button while not listening: setIsListening(true); the effect makes
\* a recognition whose onresult holds this render's processAIInput and starts it
startListening ==
    /\ activeTab = "budget"
    /\ ~isProcessing /\ ~isListening
    /\ recognition = <<>>
    /\ isListening' = TRUE
    /\ recognition' = << [seen |-> conversationHistory, delivered |-> FALSE] >>
    /\ step' = [NoStep EXCEPT !.kind = "other"]
    /\ UNCHANGED <<activeTab, conversationHistory, isProcessing, form, currentBudgetContext,
                   calls, db, analysis>>

\* the Voice button while listening: setIsListening(false); the recognition is
\* not stopped
stopListening ==
    /\ activeTab = "budget"
    /\ ~isProcessing /\ isListening
    /\ isListening' = FALSE
    /\ step' = [NoStep EXCEPT !.kind = "other"]
    /\ UNCHANGED <<activeTab, conversationHistory, isProcessing, form, currentBudgetContext,
                   calls, recognition, db, analysis>>

\* recognition.onresult: continuous is false, one final transcript
VoiceResult(text) ==
    /\ recognition # <<>> /\ ~recognition[1].delivered
    /\ processAIInput(text, recognition[1].seen)
    /\ recognition' = << [recognition[1] EXCEPT !.delivered = TRUE] >>
    /\ step' = [NoStep EXCEPT !.kind = "other"]
    /\ UNCHANGED isListening

\* recognition.onend: setIsListening(false)
VoiceEnd ==
    /\ activeTab = "budget"
    /\ recognition # <<>>
    /\ isListening' = FALSE
    /\ recognition' = <<>>
    /\ step' = [NoStep EXCEPT !.kind = "other"]
    /\ UNCHANGED <<activeTab, conversationHistory, isProcessing, form, currentBudgetContext,
                   calls, db, analysis>>

\* processAIInput resumes with the BudgetAnalysis: the AI turn is appended to the
\* current history, a draft populates the form and is merged into the context
AIResolves(k, completion) ==
    /\ k \in 1..Len(calls)
    /\ calls[k].kind = "ai"
    /\ (openai = NULL \/ oracle.threw) <=> completion = <<>>
    /\ LET response == Analyses[calls[k].text][openai][completion] IN
          /\ step' = [NoStep EXCEPT !.kind = "aiResolved", !.draft = response.budgetData]
          /\ conversationHistory' =
                Append(conversationHistory, [type |-> "ai", message |-> response.message])
          /\ IF response.budgetData.defined
             THEN /\ form' = populateFormFromAI(form, response.budgetData, clock, tz)
                  /\ currentBudgetContext' =
                        MergeContext(currentBudgetContext, response.budgetData)
             ELSE UNCHANGED <<form, currentBudgetContext>>
    /\ isProcessing' = FALSE
    /\ calls' = Without(calls, k)
    /\ UNCHANGED <<activeTab, isListening, recognition, db, analysis>>

\* the user types into the budget name field
EditBudgetName(name) ==
    /\ activeTab = "budget"
    /\ name # form.budgetName
    /\ form' = [form EXCEPT !.budgetName = name]
    /\ step' = [NoStep EXCEPT !.kind = "other"]
    /\ UNCHANGED <<activeTab, conversationHistory, isProcessing, isListening,
                   currentBudgetContext, calls, recognition, db, analysis>>

\* handleSubmit(onSubmit) up to the await: the schema passed (a budget name, no
\* negative amount), user is set, the insert is sent with the form's values
\* (the row is the request's; the table is the server's and not kept here)
onSubmit ==
    /\ activeTab = "budget"
    /\ user # NULL
    /\ ~isProcessing
    /\ form.budgetName # <<>>
    /\ Len(conversationHistory) + Len(calls) + 1 <= MaxTurns
    /\ isProcessing' = TRUE
    /\ calls' = Append(calls, Call("insert", <<>>, form))
    /\ step' = [NoStep EXCEPT !.kind = "other"]
    /\ UNCHANGED <<activeTab, conversationHistory, isListening, form, currentBudgetContext,
                   recognition, db, analysis>>

\* window.dispatchEvent(new CustomEvent('budgetUpdated')): the listeners are
\* those of a mounted Analytics, which run fetchAnalyticsData
Dispatched(orphan) ==
    [kind |-> IF orphan THEN "orphanSucceeded" ELSE "submitSucceeded",
     event |-> <<"budgetUpdated">>,
     listeners |-> IF activeTab = "analytics" THEN 1 ELSE 0, draft |-> Undefined]

\* the insert answers with the row: success turn, reset(), context cleared, the
\* event, and in finally setIsProcessing(false)
InsertSucceeds(k) ==
    /\ k \in 1..Len(calls)
    /\ calls[k].kind = "insert"
    /\ LET data == calls[k].data IN
          /\ IF calls[k].orphan
             THEN UNCHANGED <<conversationHistory, form, currentBudgetContext, isProcessing>>
             ELSE /\ conversationHistory' =
                        Append(conversationHistory,
                               [type |-> "ai", message |-> SuccessMessage(data)])
                  /\ form' = DefaultForm
                  /\ currentBudgetContext' = EmptyBudgetContext
                  /\ isProcessing' = FALSE
    /\ calls' = Without(calls, k)
    /\ step' = Dispatched(calls[k].orphan)
    /\ UNCHANGED <<activeTab, isListening, recognition, db, analysis>>

\* a variant whose catch block also resets the form and the context
InsertFails_Reset(k) ==
    /\ k \in 1..Len(calls)
    /\ calls[k].kind = "insert"
    /\ IF calls[k].orphan
       THEN UNCHANGED <<conversationHistory, isProcessing, form, currentBudgetContext>>
       ELSE /\ conversationHistory' =
                  Append(conversationHistory, [type |-> "ai", message |-> SubmitErrorMessage])
            /\ isProcessing' = FALSE
            /\ form' = DefaultForm
            /\ currentBudgetContext' = EmptyBudgetContext
    /\ calls' = Without(calls, k)
    /\ step' = [NoStep EXCEPT !.kind = IF calls[k].orphan THEN "orphanFailed"
                                     ELSE "submitFailed"]
    /\ UNCHANGED <<activeTab, isListening, recognition, db, analysis>>

\* the insert answers with an error: thrown, caught, the fixed message is
\* appended, and in finally setIsProcessing(false)
InsertFails(k) ==
    /\ k \in 1..Len(calls)
    /\ calls[k].kind = "insert"
    /\ IF calls[k].orphan
       THEN UNCHANGED <<conversationHistory, isProcessing>>
       ELSE /\ conversationHistory' =
                  Append(conversationHistory, [type |-> "ai", message |-> SubmitErrorMessage])
            /\ isProcessing' = FALSE
    /\ calls' = Without(calls, k)
    /\ step' = [NoStep EXCEPT !.kind = IF calls[k].orphan THEN "orphanFailed"
                                     ELSE "submitFailed"]
    /\ UNCHANGED <<activeTab, isListening, form, currentBudgetContext, recognition, db,
                   analysis>>

AppRest == <<user, selectedPeriod, analyticsData, loading, fetched, tz, clock, store,
             resolverVars, openai, input, context, oracle, twin,
             stats, dashLoading, dashFetched, asyncVars, authVars>>

NextApp ==
    \/ \E tab \in Tabs : Navigate(tab) /\ UNCHANGED AppRest
    \/ \E text \in AppTexts : SendTyped(text) /\ UNCHANGED AppRest
    \/ startListening /\ UNCHANGED AppRest
    \/ stopListening /\ UNCHANGED AppRest
    \/ \E text \in AppTexts : VoiceResult(text) /\ UNCHANGED AppRest
    \/ VoiceEnd /\ UNCHANGED AppRest
    \/ \E k \in 1..MaxTurns, completion \in Completions :
          AIResolves(k, completion) /\ UNCHANGED AppRest
    \/ \E name \in TypedNames : EditBudgetName(name) /\ UNCHANGED AppRest
    \/ onSubmit /\ UNCHANGED AppRest
    \/ \E k \in 1..MaxTurns : InsertSucceeds(k) /\ UNCHANGED AppRest
    \/ \E k \in 1..MaxTurns : InsertFails(k) /\ UNCHANGED AppRest

SpecApp == InitApp /\ [][NextApp]_vars

----------------------------------------------------------------------------
(* Properties of the Analytics component *)

Computed == fetched.outcome \in {"computed", "transactionsError"}

RECURSIVE SumAmounts(_)
SumAmounts(entries) ==
    IF entries = <<>> THEN 0 ELSE Head(entries).amount + SumAmounts(Tail(entries))

\* C2: in every state setAnalyticsData can leave (initial, empty state, computed,
\* sample data of the catch block) totalSpent is the sum of the categorySpending
\* values.
C2_TotalIsSumOfCategories ==
    analyticsData.totalSpent = SumAmounts(analyticsData.categorySpending)

\* two fetched rows fell into one category
C2_Witness ==
    /\ fetched.outcome = "computed"
    /\ Len(fetched.transactions) = 2
    /\ Len(analyticsData.categorySpending) = 1

CalendarIndex ==
    "Jan" :> 0 @@ "Feb" :> 1 @@ "Mar" :> 2 @@ "Apr" :> 3 @@ "May" :> 4 @@ "Jun" :> 5 @@
    "Jul" :> 6 @@ "Aug" :> 7 @@ "Sep" :> 8 @@ "Oct" :> 9 @@ "Nov" :> 10 @@ "Dec" :> 11

\* the month label the component gives a fetched row
RowLabel(r) == MonthShort(ParseISODate(r.transaction_date), tz)

\* the rows of the last fetch that carry the label
RowsLabelled(label) ==
    SelectSeq(fetched.transactions, LAMBDA r : RowLabel(r) = label)

\* C3: for the rows of a fetch in any order, monthlyTrends has exactly the month
\* labels of the rows, each with the sum of its rows' amounts, in strictly
\* increasing calendar month index.
C3_TrendsGroupedAndSorted ==
    Computed =>
        LET T == analyticsData.monthlyTrends IN
        /\ { T[i].month : i \in 1..Len(T) } =
               { RowLabel(fetched.transactions[k]) : k \in 1..Len(fetched.transactions) }
        /\ \A i \in 1..Len(T) : T[i].amount = SumAmounts(RowsLabelled(T[i].month))
        /\ \A i, j \in 1..Len(T) :
               i < j => CalendarIndex[T[i].month] < CalendarIndex[T[j].month]

\* the rows arrived with the later calendar label first
C3_Witness ==
    /\ fetched.outcome = "computed"
    /\ Len(fetched.transactions) = 2
    /\ CalendarIndex[RowLabel(fetched.transactions[1])] >
           CalendarIndex[RowLabel(fetched.transactions[2])]
    /\ Len(analyticsData.monthlyTrends) = 2

\* the year and month a row's label was taken from, as one number
RowYearMonth(r) ==
    LET d == LocalDate(ParseISODate(r.transaction_date), tz) IN d.year * 12 + d.month

\* C4: the monthly trend series is in chronological order of the months it
\* covers: no entry holds a row of a later month than a row of an entry after it.
C4_TrendsChronological ==
    Computed =>
        LET T == analyticsData.monthlyTrends
            rows == fetched.transactions
        IN \A i, j \in 1..Len(T) : \A a, b \in 1..Len(rows) :
              (i < j /\ RowLabel(rows[a]) = T[i].month /\ RowLabel(rows[b]) = T[j].month)
                  => RowYearMonth(rows[a]) < RowYearMonth(rows[b])

\* C5: getStartDateForPeriod returns local midnight of the first day of: now's
\* month (current), the month 3 / 6 months earlier with the year decremented when
\* the subtraction passes January (last3 / last6), January of now's year (year);
\* last3 on 2024-02-15 gives 2023-11-01.
C5_PeriodStart ==
    rPeriod # "none" =>
        LET n == LocalDate(rNow, tz)
            s == LocalDate(rStart, tz)
            back == CASE rPeriod = "last3" -> 3 [] rPeriod = "last6" -> 6 [] OTHER -> 0
        IN /\ LocalTick(rStart, tz) = 0
           /\ s.day = 1
           /\ rPeriod = "year" => (s.year = n.year /\ s.month = 0)
           /\ rPeriod # "year" =>
                 IF n.month >= back
                 THEN s.year = n.year /\ s.month = n.month - back
                 ELSE s.year = n.year - 1 /\ s.month = n.month + 12 - back
           /\ (rPeriod = "last3" /\ n = MkDate(2024, 1, 15)) => s = MkDate(2023, 10, 1)

\* last3 resolved in February: the start is November of the year before
C5_Witness ==
    /\ rPeriod = "last3"
    /\ LocalDate(rNow, tz).month = 1
    /\ LocalDate(rStart, tz) = MkDate(LocalDate(rNow, tz).year - 1, 10, 1)

\* daysInRange = ceil((end - start) / 1 day): the least k with k days >= end - start
DaysInRange ==
    CHOOSE k \in -1..400 :
        /\ k * TicksPerDay >= fetched.endDate - fetched.startDate
        /\ (k - 1) * TicksPerDay < fetched.endDate - fetched.startDate

\* q is the quotient n / d
IsQuotient(q, n, d) == q.den > 0 /\ q.num * d = n * q.den

\* C6 as stated: averageDaily = totalSpent / max(1, daysInRange), also when
\* daysInRange = 0 and totalSpent > 0.
C6_AverageIsTotalOverMax1 ==
    Computed =>
        IsQuotient(analyticsData.averageDaily, analyticsData.totalSpent,
                   IF DaysInRange > 1 THEN DaysInRange ELSE 1)

\* C6 amended: averageDaily = totalSpent / daysInRange when daysInRange > 0, and
\* 0 when daysInRange <= 0, whatever totalSpent is.
C6_AverageIsTotalOverDays ==
    Computed =>
        IF DaysInRange > 0
        THEN IsQuotient(analyticsData.averageDaily, analyticsData.totalSpent, DaysInRange)
        ELSE IsQuotient(analyticsData.averageDaily, 0, 1)

\* a real division: money spent over a range of more than one day
C6_Witness ==
    /\ fetched.outcome = "computed"
    /\ DaysInRange > 1
    /\ analyticsData.totalSpent > 0
    /\ analyticsData.averageDaily.den > 1

\* C7: a range of zero or negative days yields averageDaily = 0; the run ends
\* in the computed result and no value is the outcome of a division by zero.
C7_ZeroDaysGivesZero ==
    /\ analyticsData.averageDaily.den # 0
    /\ (Computed /\ DaysInRange <= 0) => analyticsData.averageDaily = Zero

\* a run at local midnight of the first of the month that fetched a row
C7_Witness ==
    /\ fetched.outcome = "computed"
    /\ DaysInRange = 0
    /\ analyticsData.totalSpent > 0
    /\ analyticsData.averageDaily = Zero

\* C8: no fetched row (an empty list, or a failed transactions query), or no
\* active budget, gives totalSpent 0, no category, no trend point, averageDaily 0.
C8_EmptyInputGivesZeroes ==
    ((Computed /\ fetched.transactions = <<>>) \/ fetched.outcome = "noBudgets") =>
        /\ analyticsData.totalSpent = 0
        /\ analyticsData.categorySpending = <<>>
        /\ analyticsData.monthlyTrends = <<>>
        /\ analyticsData.averageDaily = Zero

\* the table has rows, none in the range of a period longer than a day
C8_Witness ==
    /\ fetched.outcome = "computed"
    /\ fetched.transactions = <<>>
    /\ store # <<>>
    /\ fetched.period = "last3"
    /\ DaysInRange > 1
    /\ analyticsData = EmptyAnalytics

----------------------------------------------------------------------------
(* Properties of the extractor *)

\* the result is the one of extractBudgetDataFallback
Fallback == analysis.path \in {"noCredential", "failure"}

Keywords == {INCOME} \cup { ExtractCategories[n] : n \in 1..Len(ExtractCategories) }

\* the positions of the first digit of an amount written after an occurrence of
\* the word: only ':' and white space, then an optional '$', lie between
AmountStartsAfter(text, word) ==
    { j \in 1..Len(text) :
        /\ IsDigitAt(text, j)
        /\ \E i \in 1..(j - Len(word)) :
              /\ WordAt(text, i, word)
              /\ \E k \in {j - 1, j} :
                    /\ k >= i + Len(word)
                    /\ k = j - 1 => text[k] = "$"
                    /\ \A x \in (i + Len(word))..(k - 1) : text[x] \in {":", " "} }

\* the draft's value for the word, <<>> when the draft has no such field
FieldOf(draft, word) ==
    IF word = INCOME THEN draft.income
    ELSE LET hit == { n \in 1..Len(draft.expenses) : draft.expenses[n].category = word }
         IN IF hit = {} THEN <<>> ELSE << draft.expenses[CHOOSE n \in hit : TRUE].amount >>

ExampleText == <<"M", "y", " ", "i", "n", "c", "o", "m", "e", " ", "i", "s", " ", "$", "3", ",", "0", "0", "0", " ", "a", "n", "d", " ", "r", "e", "n", "t", " ", "i", "s", " ", "1", "2", "0", "0">>

IS == <<" ", "i", "s", " ">>

\* C1: on "My income is $3,000 and rent is 1200" the fallback extractor returns
\* income 3000 and expenses {rent: 1200} and nothing else; and whenever the word
\* income or a category name is followed by " is " and an amount, the draft has
\* that field.
C1_IsClauseExtracted ==
    Fallback =>
        /\ input = ExampleText =>
              /\ analysis.budgetData.income = << Ratio(3000, 1) >>
              /\ analysis.budgetData.expenses =
                     << [category |-> ExtractCategories[1], amount |-> Ratio(1200, 1)] >>
        /\ \A w \in Keywords :
              AmountStartsAfter(ToLowerCase(input), w \o IS) # {}
                  => FieldOf(analysis.budgetData, w) # <<>>

\* C9: when neither income nor a category name is followed by an amount, the
\* fallback extractor returns undefined, not an object with empty fields.
C9_NoAmountNoDraft ==
    (Fallback /\ \A w \in Keywords : AmountStartsAfter(ToLowerCase(input), w) = {})
        => analysis.budgetData = Undefined

\* a text that names income and holds digits, none of them following a keyword
C9_Witness ==
    /\ Fallback
    /\ Includes(ToLowerCase(input), INCOME)
    /\ \E i \in 1..Len(input) : input[i] \in Digits
    /\ \A w \in Keywords : AmountStartsAfter(ToLowerCase(input), w) = {}
    /\ analysis.budgetData = Undefined

\* the number written from position j: the longest run of digits, ',' and '.'
\* that ends in a digit
WrittenNumber(text, j) ==
    LET ends == { e \in j..Len(text) :
                    /\ text[e] \in Digits
                    /\ \A x \in j..e : text[x] \in Digits \cup {",", "."} }
    IN SubSeq(text, j, CHOOSE e \in ends : \A f \in ends : f <= e)

\* digits, then groups of a comma and exactly three digits, then at most one
\* '.' with exactly two digits
WellFormed(str) ==
    LET dots == { x \in 1..Len(str) : str[x] = "." }
        n    == IF dots = {} THEN Len(str) ELSE (CHOOSE x \in dots : TRUE) - 1
    IN /\ Cardinality(dots) <= 1
       /\ dots # {} => (Len(str) = n + 3 /\ str[n + 2] \in Digits /\ str[n + 3] \in Digits)
       /\ n >= 1 /\ str[1] \in Digits
       /\ \A x \in 1..n :
             \/ str[x] \in Digits
             \/ /\ str[x] = ","
                /\ x + 3 <= n
                /\ \A y \in (x + 1)..(x + 3) : str[y] \in Digits
                /\ x + 4 <= n => str[x + 4] = ","

\* C10: a field whose written amount is malformed stays absent: when the draft
\* has a field, a well-formed number is written after an occurrence of its
\* keyword.
C10_MalformedLeavesFieldAbsent ==
    Fallback =>
        \A w \in Keywords :
            FieldOf(analysis.budgetData, w) # <<>> =>
                \E j \in AmountStartsAfter(ToLowerCase(input), w) :
                    WellFormed(WrittenNumber(ToLowerCase(input), j))

\* the text without any of its commas
StripSeparators(str) == SelectSeq(str, LAMBDA c : c # ",")

\* the number a well-formed amount writes: the digits before the '.', all groups
\* joined, and the two digits after it as hundredths
WrittenValue(str) ==
    LET plain == StripSeparators(str)
        dots  == { x \in 1..Len(plain) : plain[x] = "." }
        n     == IF dots = {} THEN Len(plain) ELSE (CHOOSE x \in dots : TRUE) - 1
        cents == IF dots = {} THEN 0 ELSE DigitsValue(SubSeq(plain, n + 2, Len(plain)))
    IN Ratio(DigitsValue(SubSeq(plain, 1, n)) * 100 + cents, 100)

\* the first amount written after an occurrence of the word
FirstAmountAfter(text, word) ==
    LET starts == AmountStartsAfter(text, word)
    IN WrittenNumber(text, CHOOSE j \in starts : \A k \in starts : j <= k)

\* C11: where the first amount after income or a category name is well formed,
\* with any number of thousands groups, the stored value is the number written
\* with every separator removed ("1,200.50" is 1200.5, "3,000,000" is 3000000).
C11_AllSeparatorsStripped ==
    analysis.path # "none" =>
        \A w \in Keywords :
            LET text == ToLowerCase(input) IN
            (AmountStartsAfter(text, w) # {} /\ WellFormed(FirstAmountAfter(text, w)))
                => FieldOf(analysis.budgetData, w) = << WrittenValue(FirstAmountAfter(text, w)) >>

\* C12: without a client no request is sent to the oracle, and the result is the
\* fixed advisory message, no action, and the draft the extractor gives on the
\* text with no advisory text, whichever context was passed.
C12_NoCredentialFallback ==
    /\ openai = NULL => oracle.request = <<>>
    /\ analysis.path = "noCredential" =>
          /\ analysis.message = UnavailableMessage
          /\ analysis.budgetData = extractBudgetData(input, <<>>)
          /\ analysis.action = NULL

\* a call without a client that passed a context and found a field
C12_Witness ==
    /\ analysis.path = "noCredential"
    /\ context # <<>>
    /\ analysis.budgetData.income # <<>>

\* C13: when the oracle call throws, the call still returns: the fixed apology
\* and the draft the extractor gives on the same text.
C13_OracleFailureFallback ==
    oracle.threw =>
        /\ analysis.path = "failure"
        /\ analysis.message = TroubleMessage
        /\ analysis.budgetData = extractBudgetData(input, <<>>)

\* a request was sent, the call threw, and the text still gave a draft
C13_Witness ==
    /\ oracle.threw
    /\ oracle.request # <<>>
    /\ analysis.path = "failure"
    /\ analysis.budgetData.expenses # <<>>

\* C15 as stated: a successful run returns the reply as message, and two
\* successful runs on the same text return the same budgetData whatever the
\* replies were.
C15_DraftFromTextOnly ==
    [][analysis'.path = "success" =>
          /\ analysis'.message = oracle'.reply[1]
          /\ analysis.path = "success" => analysis'.budgetData = analysis.budgetData]_vars

\* C15 amended: a successful run returns the reply as message; income and
\* expenses of two successful runs on the same text are the same whatever the
\* replies were, and the suggestions are those the reply's words trigger.
C15_IncomeAndExpensesFromTextOnly ==
    [][analysis'.path = "success" =>
          /\ analysis'.message = oracle'.reply[1]
          /\ analysis.path = "success" =>
                /\ analysis'.budgetData.income = analysis.budgetData.income
                /\ analysis'.budgetData.expenses = analysis.budgetData.expenses
          /\ analysis'.budgetData.suggestions # <<>> <=>
                \E w \in {SAVE, REDUCE, EMERGENCY, FUND} : Includes(oracle'.reply[1], w)]_vars

\* a reply that names a category with an amount and triggers a suggestion, on a
\* text that gives an income and no such category
C15_Witness ==
    /\ analysis.path = "success"
    /\ RegexCapture(ToLowerCase(analysis.message), ExtractCategories[1]) # <<>>
    /\ analysis.budgetData.suggestions # <<>>
    /\ analysis.budgetData.income # <<>>
    /\ analysis.budgetData.expenses = <<>>

BothFellBack == analysis.path = "noCredential" /\ twin.path = "failure"

\* C14 as stated: on the same text the result without a credential and the
\* result of a failed oracle call are identical in message, budgetData and action.
C14_FallbackResultsIdentical ==
    BothFellBack =>
        /\ analysis.message = twin.message
        /\ analysis.budgetData = twin.budgetData
        /\ analysis.action = twin.action

\* C14 amended: on the same text the two results have the same budgetData and
\* the same (absent) action; each carries the fixed message of its own path.
C14_FallbackDraftsIdentical ==
    BothFellBack =>
        /\ analysis.budgetData = twin.budgetData
        /\ analysis.action = twin.action
        /\ analysis.message = UnavailableMessage
        /\ twin.message = TroubleMessage

\* both deployments answered a text that gives a draft
C14_Witness ==
    /\ BothFellBack
    /\ analysis.budgetData.defined
    /\ twin.budgetData.defined

\* the word occurs in the text, letters compared without regard to case
Mentions(text, word) ==
    \E i \in 1..Len(text) :
        /\ i + Len(word) - 1 <= Len(text)
        /\ \A k \in 1..Len(word) :
              LET c == text[i + k - 1] IN
              c = word[k] \/ (c \in DOMAIN UpperToLower /\ UpperToLower[c] = word[k])

\* C16: the action is add_transaction when the text mentions transaction, spent
\* or bought in any letter case; otherwise set_category_limit when it mentions
\* budget or limit; otherwise update_budget, with or without income or salary.
C16_ActionPrecedence ==
    analysis.path = "success" =>
        analysis.action =
            IF \E w \in {TRANSACTION, SPENT, BOUGHT} : Mentions(input, w)
            THEN "add_transaction"
            ELSE IF \E w \in {BUDGET, LIMIT} : Mentions(input, w)
            THEN "set_category_limit"
            ELSE "update_budget"

\* a text that names a word of the second family first and one of the first
\* family after it, in capitals
C16_Witness ==
    /\ analysis.path = "success"
    /\ input = JoinWords(<< <<"B", "U", "D", "G", "E", "T">>, <<"S", "p", "e", "n", "t">> >>)
    /\ analysis.action = "add_transaction"

\* C20: when the budgets query or the transactions query answers with an error,
\* or the run throws, analyticsData is the zeroed summary: no category, no trend
\* point, totalSpent 0, averageDaily 0.
C20_FetchErrorGivesZeroes ==
    fetched.outcome \in {"budgetsError", "transactionsError"} =>
        /\ analyticsData.categorySpending = <<>>
        /\ analyticsData.monthlyTrends = <<>>
        /\ analyticsData.totalSpent = 0
        /\ analyticsData.averageDaily = Zero

\* the rows of the last fetch whose transaction_date is written in the month
RowsWrittenIn(label) ==
    SelectSeq(fetched.transactions,
              LAMBDA r : Months[r.transaction_date.month + 1] = label)

\* C29: in every zone each row's amount is counted under the label of the month
\* written in its transaction_date: every trend entry holds the sum of the rows
\* written in its month, and a row dated the 1st is not under the month before.
C29_LabelIsWrittenMonth ==
    Computed =>
        LET T == analyticsData.monthlyTrends IN
        /\ \A i \in 1..Len(T) : T[i].amount = SumAmounts(RowsWrittenIn(T[i].month))
        /\ \A k \in 1..Len(fetched.transactions) :
              \E i \in 1..Len(T) :
                  T[i].month = Months[fetched.transactions[k].transaction_date.month + 1]

----------------------------------------------------------------------------
(* Properties of the Dashboard component *)

\* the rows of the budgets table that belong to the user
UserBudgets == SelectSeq(db.budgets, LAMBDA b : b.user_id = user)

RECURSIVE SumOf(_, _)
SumOf(rows, field) ==
    IF rows = <<>> THEN 0 ELSE Head(rows)[field] + SumOf(Tail(rows), field)

\* C17: after a run without error or throw, totalIncome is the sum of
\* total_income over all the user's budgets, active or not, totalExpenses the sum
\* of the fetched transactions' amounts, remainingBalance their difference, also
\* when negative; budgets of 1000 and 500 with one fetched transaction of 200
\* give 1500, 200, 1300.
C17_DashboardTotals ==
    (dashFetched.outcome = "computed" /\ dashFetched.errors = {}) =>
        /\ stats.totalIncome = SumOf(UserBudgets, "total_income")
        /\ stats.totalExpenses = SumOf(dashFetched.transactions, "amount")
        /\ stats.remainingBalance = stats.totalIncome - stats.totalExpenses
        /\ ( /\ Len(UserBudgets) = 2
             /\ { UserBudgets[i].total_income : i \in 1..2 } = {1000, 500}
             /\ Len(dashFetched.transactions) = 1
             /\ dashFetched.transactions[1].amount = 200 )
           => ( stats.totalIncome = 1500 /\ stats.totalExpenses = 200
                /\ stats.remainingBalance = 1300 )

\* an active and an inactive budget and more spent than earned
C17_Witness ==
    /\ dashFetched.outcome = "computed" /\ dashFetched.errors = {}
    /\ \E i \in 1..Len(UserBudgets) : ~UserBudgets[i].is_active
    /\ stats.totalIncome = 1500
    /\ stats.remainingBalance < 0

\* the first day of the current month in the user's calendar
FirstOfLocalMonth == [LocalDate(clock, tz) EXCEPT !.day = 1]

\* C18: in every zone and at every instant the lower bound sent with the
\* transactions query is the first day of the current local month, and the
\* fetched transactions are exactly those of the user's budgets dated on or
\* after it, none dated in the month before.
C18_LowerBoundIsFirstOfMonth ==
    (dashFetched.outcome = "computed" /\ dashFetched.lowerBound # <<>>
        /\ "transactions" \notin dashFetched.errors) =>
        /\ dashFetched.lowerBound[1] = FirstOfLocalMonth
        /\ dashFetched.transactions =
               SelectSeq(db.transactions, LAMBDA t :
                   /\ \E i \in 1..Len(UserBudgets) : UserBudgets[i].id = t.budget_id
                   /\ DayIndex(t.transaction_date) >= DayIndex(FirstOfLocalMonth))

\* C19: a run never ends in a failure and always ends with loading false; a
\* query that answers with an error counts as an empty collection while the
\* summary is computed from the others; when every query sent fails, or the run
\* throws, totalIncome, totalExpenses, remainingBalance and upcomingEmis are 0.
C19_DashboardSurvivesErrors ==
    /\ dashFetched.outcome \in {"none", "computed", "thrown"}
    /\ dashFetched.outcome # "none" => dashLoading = FALSE
    /\ dashFetched.outcome = "thrown" =>
          /\ stats.totalIncome = 0 /\ stats.totalExpenses = 0
          /\ stats.remainingBalance = 0 /\ stats.upcomingEmis = 0
    /\ dashFetched.outcome = "computed" =>
          LET E == dashFetched.errors IN
          /\ stats.totalIncome =
                IF "budgets" \in E THEN 0 ELSE SumOf(UserBudgets, "total_income")
          /\ stats.totalExpenses =
                IF E \cap {"budgets", "transactions"} # {} THEN 0
                ELSE SumOf(dashFetched.transactions, "amount")
          /\ stats.upcomingEmis =
                IF "emis" \in E THEN 0
                ELSE Cardinality({ i \in 1..Len(db.emis) :
                        db.emis[i].user_id = user /\ db.emis[i].remaining_months > 0 })
          /\ stats.remainingBalance = stats.totalIncome - stats.totalExpenses
          /\ {"budgets", "emis"} \subseteq E =>
                /\ stats.totalIncome = 0 /\ stats.totalExpenses = 0
                /\ stats.remainingBalance = 0 /\ stats.upcomingEmis = 0

\* the budgets query failed and the open EMIs are still counted
C19_Witness ==
    /\ dashFetched.outcome = "computed"
    /\ dashFetched.errors = {"budgets"}
    /\ UserBudgets # <<>>
    /\ stats.totalIncome = 0
    /\ stats.upcomingEmis = 2
    /\ dashLoading = FALSE

----------------------------------------------------------------------------
(* Properties of overlapping runs of fetchAnalyticsData *)

RowsNamed(rows, name) == SelectSeq(rows, LAMBDA r : CategoryName(r) = name)

\* C24: under every interleaving of overlapping runs the analyticsData on display
\* is, in all four fields, the value of one run: the run that called
\* setAnalyticsData last.  After a computed run every field is derived from that
\* run's rows; after a run whose budgets query failed all four fields are the
\* constants of the catch block.  No field survives from another run.
C24_WholeReplacement ==
    /\ shown.id = 0 => analyticsData = EmptyAnalytics
    /\ shown.outcome = "budgetsError" => analyticsData = SampleAnalytics
    /\ shown.outcome = "computed" =>
          LET C == analyticsData.categorySpending
              T == analyticsData.monthlyTrends
              total == SumAmounts(shown.rows)
          IN /\ analyticsData.totalSpent = total
             /\ \A i \in 1..Len(C) : C[i].amount = SumAmounts(RowsNamed(shown.rows, C[i].category))
             /\ \A k \in 1..Len(shown.rows) :
                   \E i \in 1..Len(C) : C[i].category = CategoryName(shown.rows[k])
             /\ SumAmounts(T) = total
             /\ Len(T) <= Len(shown.rows)
             /\ analyticsData.averageDaily =
                   AverageDaily(total,
                       DaysDiff(getStartDateForPeriod(shown.period, clock, tz), clock))

\* a run replaced the non-empty result of another run that had other rows, while
\* a third run is still in flight
C24_Witness ==
    /\ Len(history) = 2
    /\ history[1].outcome = "computed" /\ history[1].rows # <<>>
    /\ shown.outcome = "computed" /\ shown.rows # <<>>
    /\ history[1].rows # shown.rows
    /\ inflight # <<>>
    /\ analyticsData.totalSpent = SumAmounts(shown.rows)

\* C25: nothing cancels or orders overlapping runs: what is displayed is always
\* the result of the run that resolved last, also when a run started later has
\* resolved before it.
C25_LastResolvedWins ==
    history # <<>> =>
        /\ shown = history[Len(history)]
        /\ shown.outcome = "computed" => analyticsData.totalSpent = SumAmounts(shown.rows)

\* a run started earlier resolved after a run started later, and its older rows
\* replaced the newer ones
C25_Witness ==
    /\ Len(history) >= 2
    /\ LET newer == history[Len(history) - 1] IN
          /\ shown.id < newer.id
          /\ shown.outcome = "computed" /\ newer.outcome = "computed"
          /\ shown.period = newer.period
          /\ Len(shown.rows) < Len(newer.rows)
          /\ analyticsData.totalSpent = SumAmounts(shown.rows)
          /\ analyticsData.totalSpent < SumAmounts(newer.rows)

\* C26 as stated: once no run is in flight the displayed result was computed for
\* selectedPeriod.
C26_SettledPeriodIsSelected ==
    (inflight = <<>> /\ history # <<>>) => shown.period = selectedPeriod

\* C26, amended: once no run is in flight the displayed result was computed for
\* the period of the run that completed last, and that is selectedPeriod when
\* the run started last completed last.
C26_SettledPeriodIsLastCompleted ==
    (inflight = <<>> /\ history # <<>>) =>
        /\ shown.period = history[Len(history)].period
        /\ shown.id = nextId - 1 => shown.period = selectedPeriod

\* the period changed while a run was in flight; the run for the new period
\* completed last and its period is displayed
C26_Witness ==
    /\ inflight = <<>>
    /\ Len(history) >= 2
    /\ history[1].period # selectedPeriod
    /\ shown.id = nextId - 1
    /\ shown.period = selectedPeriod

----------------------------------------------------------------------------
(* Properties of AuthProvider *)

\* C27: whenever no profile fetch is in flight, a signed-out provider (user null)
\* has no profile, and a profile on display belongs to the current user.
C27_ProfileFollowsUser ==
    pendingAuth.fetches = <<>> =>
        /\ user = NULL => userProfile = NULL
        /\ userProfile # NULL => userProfile = user

----------------------------------------------------------------------------
(* Properties of BudgetManager *)

IsPrefixOf(a, b) == Len(a) <= Len(b) /\ SubSeq(b, 1, Len(a)) = a

\* C21: while BudgetManager stays mounted every handler (typed send, voice
\* transcript, AI answer, submission) leaves a conversationHistory that extends
\* the one before, and the view, slice(-4), is its last four turns, or all of
\* them when there are fewer.
C21_AppendOnlyLog ==
    [][step'.kind # "navigate" =>
          /\ IsPrefixOf(conversationHistory, conversationHistory')
          /\ LET h == conversationHistory'
                 v == LastFour(h)
             IN /\ Len(v) = (IF Len(h) < 4 THEN Len(h) ELSE 4)
                /\ \A i \in 1..Len(v) : v[i] = h[Len(h) - Len(v) + i]]_vars

\* C22: when processAIInput resumes with a draft, the income field changes only
\* if the draft has an income, a category without an entry in draft.expenses
\* keeps its value, and a budget name that was not empty is kept.
C22_PopulateKeepsAbsentFields ==
    [][(step'.kind = "aiResolved" /\ step'.draft.defined) =>
          LET d == step'.draft IN
          /\ d.income = <<>> => form'.income = form.income
          /\ \A c \in FormCategories :
                (\A i \in 1..Len(d.expenses) : d.expenses[i].category # c)
                    => form'.categoryBudgets[c] = form.categoryBudgets[c]
          /\ form.budgetName # <<>> => form'.budgetName = form.budgetName]_vars

\* a draft with groceries and without income or rent arrived when income, rent
\* and a typed name were in the form, and all three are still there
C22_Witness ==
    /\ step.kind = "aiResolved"
    /\ step.draft.defined
    /\ step.draft.income = <<>>
    /\ \E i \in 1..Len(step.draft.expenses) : step.draft.expenses[i].category = ExtractCategories[2]
    /\ \A i \in 1..Len(step.draft.expenses) : step.draft.expenses[i].category # ExtractCategories[1]
    /\ form.income = Ratio(3000, 1)
    /\ form.categoryBudgets[ExtractCategories[1]] = Ratio(1200, 1)
    /\ form.categoryBudgets[ExtractCategories[2]] = Ratio(300, 1)
    /\ form.budgetName \in TypedNames

\* C23: whenever budgetUpdated is dispatched, a listener of Analytics receives it.
C23_EventHasListener == step.event # <<>> => step.listeners > 0

\* C28: a mounted BudgetManager dispatches budgetUpdated, resets the form and
\* clears currentBudgetContext in the step in which its insert succeeded and in
\* no other; when the insert failed no event is dispatched, form and context are
\* as before and the fixed error message is the new last turn; after both,
\* isProcessing is false.  An insert whose component has unmounted dispatches the
\* event on success and nothing on failure.
C28_SubmitOutcomes ==
    [][/\ step'.kind = "submitSucceeded" =>
             /\ step'.event = <<"budgetUpdated">>
             /\ form' = DefaultForm
             /\ currentBudgetContext' = EmptyBudgetContext
             /\ isProcessing' = FALSE
       /\ step'.kind = "submitFailed" =>
             /\ step'.event = <<>>
             /\ form' = form
             /\ currentBudgetContext' = currentBudgetContext
             /\ conversationHistory' =
                   conversationHistory \o << [type |-> "ai", message |-> SubmitErrorMessage] >>
             /\ isProcessing' = FALSE
       /\ step'.kind = "orphanFailed" => step'.event = <<>>
       /\ step'.event # <<>> => step'.kind \in {"submitSucceeded", "orphanSucceeded"}
       /\ (form' = DefaultForm /\ form # DefaultForm)
             => step'.kind \in {"submitSucceeded", "navigate"}
       /\ (currentBudgetContext' = EmptyBudgetContext
             /\ currentBudgetContext # EmptyBudgetContext)
             => step'.kind \in {"submitSucceeded", "navigate"}]_vars

\* the insert failed for a form filled from a draft: values and context are kept,
\* the error message is the last turn
C28_Witness ==
    /\ step.kind = "submitFailed"
    /\ step.event = <<>>
    /\ form.income = Ratio(3000, 1)
    /\ form.budgetName # <<>>
    /\ currentBudgetContext.income # <<>>
    /\ conversationHistory # <<>>
    /\ conversationHistory[Len(conversationHistory)].message = SubmitErrorMessage
    /\ ~isProcessing

\* C30: when processAIInput resumes with a draft, every entry of draft.expenses
\* is the value of the form field of its category.
C30_EveryExpenseWritten ==
    [][(step'.kind = "aiResolved" /\ step'.draft.defined) =>
          \A i \in 1..Len(step'.draft.expenses) :
              LET e == step'.draft.expenses[i] IN
              /\ e.category \in DOMAIN form'.categoryBudgets
              /\ form'.categoryBudgets[e.category] = e.amount]_vars

====
